---- MODULE Spec2Model ----
(***************************************************************************)
(* A model of tournabot's Smoothcomp client (src/src/tournabot/            *)
(* smoothcomp.py): event discovery with its bucket cascade and mirror      *)
(* resolver, the name-search sweep, and multi-page competitor extraction   *)
(* with its seen-key deduplication.                                        *)
(*                                                                         *)
(* Abstractions.  A page is what the parsers extract from it: a listing    *)
(* page is the candidate dictionary of _collect_event_candidates (URL ->   *)
(* country signal and parsed dates of the joined context), a mirror page   *)
(* is its sequence of <a href> links with the row's country signal and     *)
(* parsed dates.  A date is the integer 10 * year + k, so that YearOf and  *)
(* the order on dates are computed, not assumed.  An event URL is a        *)
(* positive integer; href 0 is a link that is no event link.               *)
(***************************************************************************)
EXTENDS Integers, Sequences, FiniteSets, TLC

VARIABLES
    op,            \* operation in progress: "none", "fetch_events", "fallback", "search", "competitors",
                   \* "by_id", "rank", "by_url", "filter", "affiliates", "schedule",
                   \* "format", "pages", "concurrent", "buckets", "text", "collect",
                   \* "pairs", "blocks", "cache"
    pc,            \* position of that operation
    year,          \* the year argument
    today,         \* date.today() of the process clock
    candidates,    \* fetch_events: the candidate dictionary of the listing page
    groups,        \* fetch_events: the six bucket lists, sorted
    mirrorAsked,   \* fetch_events: TRUE once the mirror source was requested
    todayArg,      \* _fetch_events_from_fallback: its today argument, <<>> for None
    mirrorPage,    \* the links of the mirror page answered to the resolver
    primary,       \* search_events_by_name: the list fetch_events returned
    sweepPage,     \* search_events_by_name: the links of the mirror page answered to the sweep
    sweep,         \* search_events_by_name: the list the sweep returned
    result,        \* the returned list
    outcome,       \* "pending", "returned" or "raised"
    getFailed,     \* TRUE once a GET of the operation timed out, failed or answered non-2xx
    pagesAsked,    \* fetch_competitors_for_event: the GETs issued, in order, with their answers
    htmlPages,     \* fetch_competitors_for_event: html_pages, the URLs kept for parsing
    pageIdx,       \* the parse loop's position in html_pages (0 before the first page)
    kindPos,       \* the pass running on that page, an index of PassOrder
    log,           \* every candidate that reached a seen-key test, in processing order
    competitors,   \* fetch_competitors_for_event: the list being built
    seen,          \* fetch_competitors_for_event: the seen-key set
    origin         \* for each element of competitors, the index in log of the candidate it was built from

compVars == <<pagesAsked, htmlPages, pageIdx, kindPos, log, competitors, seen, origin>>

VARIABLES
    idReq,         \* fetch_event_by_id: the requested event id
    idUrls,        \* fetch_event_by_id: the candidate URLs, in dict insertion order
    idListing,     \* _candidate_event_urls_for_id: the answers of the two listing pages, in order
    idFetched      \* fetch_event_by_id: the candidates fetched so far, in order, with what they resolved to

idVars == <<idReq, idUrls, idListing, idFetched>>

VARIABLES
    rkQuery,       \* search_events_by_name: the name_query argument
    rkLimit,       \* search_events_by_name: the limit argument
    rkEvents,      \* search_events_by_name: events, the values of merged
    rkScored       \* search_events_by_name: the scored list after its sort

rankVars == <<rkQuery, rkLimit, rkEvents, rkScored>>

VARIABLES
    merged         \* search_events_by_name: list(merged.values()), the union of the two sources

VARIABLES
    urlShape,      \* fetch_event_by_url: the parts the event_url argument is made of
    urlSuffix,     \* fetch_event_by_url: what follows them in the argument (slash, query string)
    urlFinal       \* fetch_event_by_url: str(response.url)

urlVars == <<urlShape, urlSuffix, urlFinal>>

VARIABLES
    flKind,        \* the strategy whose affiliate filter runs
    flKeywords,    \* affiliate_keywords
    flText,        \* the text the strategy tests: row, script, card, affiliate cell, object or block
    flField,       \* _parse_competitor_scripts: the object's affiliate field, <<>> if it has none
    flKept         \* TRUE when the candidate went on to the seen-key test

filterVars == <<flKind, flKeywords, flText, flField, flKept>>

VARIABLES
    afRows,        \* detect_affiliates_for_event: the academy of each unfiltered row, in order
    afLimit,       \* detect_affiliates_for_event: the limit argument
    afLabels,      \* detect_affiliates_for_event: the returned list
    scCompetitors, \* _send_event_schedule: competitors, the filtered extraction's rows
    scCalls,       \* _send_event_schedule: the client calls made, in order
    scText,        \* _send_event_schedule: the sections of text, in order
    scChunks,      \* _safe_send_message: len(chunks)
    scSent         \* _safe_send_message: the send_message calls, in order, with Telegram's answers

hintVars == <<afRows, afLimit, afLabels, scCompetitors, scCalls, scText, scChunks, scSent>>

\* the state of the operations modelled one by one further down
VARIABLES
    fmRows,        \* format_competitors: competitor_rows
    fmText         \* format_competitors: the lines of the returned text

fmtVars == <<fmRows, fmText>>

VARIABLES
    rqPages,       \* fetch_competitors_for_event: pages_to_try
    rqIssued,      \* the URLs handed to client.get, in order
    rqOutstanding, \* the URLs whose GET has started and has not yet answered or failed
    rqKept         \* len(html_pages)

reqVars == <<rqPages, rqIssued, rqOutstanding, rqKept>>

VARIABLES
    ccPc,          \* for each of two concurrent fetch_competitors_for_event calls, its position
    ccInput,       \* for each call, the candidates its pages yield, in processing order
    ccState,       \* for each call, its locals competitors and seen
    ccResult       \* for each call, the list it returned

concVars == <<ccPc, ccInput, ccState, ccResult>>

VARIABLES
    bkCands,       \* fetch_events: the candidates of the listing page with their names, in dictionary order
    bkFound,       \* fetch_events: TRUE when one of its three return statements ran
    bkResult       \* fetch_events: the list that statement returned

bktVars == <<bkCands, bkFound, bkResult>>

VARIABLES
    rtText,        \* handle_text_input: msg.text
    rtCalls,       \* handle_text_input: the client calls made, in order, with their argument
    rtReplies      \* handle_text_input: the replies sent, in order

routeVars == <<rtText, rtCalls, rtReplies>>

VARIABLES
    clPage,        \* fetch_events: the event links of the listing page, in document order
    clKeys,        \* _collect_event_candidates: the keys of candidates, in insertion order
    clResult       \* fetch_events: the URLs of the returned events, in order

collectVars == <<clPage, clKeys, clResult>>

VARIABLES
    ppPairs,       \* _parse_schedule_brackets_page: the (left, right) pairs re.findall returns for one script
    ppScript,      \* the script: whether its text passes the affiliate filter, and its division
    ppSeenAt,      \* seen as it stood before each pair processed so far
    ppSeen,        \* seen
    ppRows         \* rows, each record with the pair it came from

pairsVars == <<ppPairs, ppScript, ppSeenAt, ppSeen, ppRows>>

VARIABLES
    dbRuns,        \* _parse_competitor_blocks: what the selectors select, as runs of like nodes
    dbPos,         \* runs the loops have gone through
    dbScanned,     \* scanned
    dbInspected,   \* nodes that passed the cap test and had their text read
    dbSeen0,       \* seen on entry
    dbSeen,        \* seen
    dbRows,        \* rows
    dbResult       \* the list the function returned

blocksVars == <<dbRuns, dbPos, dbScanned, dbInspected, dbSeen0, dbSeen, dbRows, dbResult>>

VARIABLES
    evCache,       \* context.bot_data[EVENT_CACHE_KEY]: event id -> Event, one table for all chats
    evButtons,     \* per chat, the event ids of the buttons the bot has sent it
    evLast,        \* the update handled last: its handler, chat, the cache before it, the client calls and the reply
    evListedBy,    \* the chat whose listing filled the cache last, 0 before any
    evCount        \* updates handled

cacheVars == <<evCache, evButtons, evLast, evListedBy, evCount>>

\* the state of the later operations, and for each of them the state of the others
moreVars == <<fmtVars, reqVars, concVars, bktVars, routeVars, collectVars, pairsVars, blocksVars, cacheVars>>
fmtOthers == <<idVars, rankVars, merged, urlVars, filterVars, hintVars, reqVars, concVars, bktVars, routeVars, collectVars, pairsVars, blocksVars, cacheVars>>
reqOthers == <<idVars, rankVars, merged, urlVars, filterVars, hintVars, fmtVars, concVars, bktVars, routeVars, collectVars, pairsVars, blocksVars, cacheVars>>
concOthers == <<idVars, rankVars, merged, urlVars, filterVars, hintVars, fmtVars, reqVars, bktVars, routeVars, collectVars, pairsVars, blocksVars, cacheVars>>
bktOthers == <<idVars, rankVars, merged, urlVars, filterVars, hintVars, fmtVars, reqVars, concVars, routeVars, collectVars, pairsVars, blocksVars, cacheVars>>
routeOthers == <<idVars, rankVars, merged, urlVars, filterVars, hintVars, fmtVars, reqVars, concVars, bktVars, collectVars, pairsVars, blocksVars, cacheVars>>
collectOthers == <<idVars, rankVars, merged, urlVars, filterVars, hintVars, fmtVars, reqVars, concVars, bktVars, routeVars, pairsVars, blocksVars, cacheVars>>
pairsOthers == <<idVars, rankVars, merged, urlVars, filterVars, hintVars, fmtVars, reqVars, concVars, bktVars, routeVars, collectVars, blocksVars, cacheVars>>
blocksOthers == <<idVars, rankVars, merged, urlVars, filterVars, hintVars, fmtVars, reqVars, concVars, bktVars, routeVars, collectVars, pairsVars, cacheVars>>
cacheOthers == <<idVars, rankVars, merged, urlVars, filterVars, hintVars, fmtVars, reqVars, concVars, bktVars, routeVars, collectVars, pairsVars, blocksVars>>


\* the state of the operations other than discovery, search and competitor extraction
restVars == <<idVars, rankVars, merged, urlVars, filterVars, hintVars, moreVars>>

vars == <<op, pc, year, today, candidates, groups, mirrorAsked, todayArg, mirrorPage,
          primary, sweepPage, sweep, result, outcome, getFailed, compVars, restVars>>

---------------------------------------------------------------------------
(* Bounds and input domains *)

NumUrls == 2
MaxLinks == 2
DateMax == 99999

Urls == 1..NumUrls
Dates == {20261, 20263, 20271}
Clock == {20262}
TargetYears == {2026}
DateSets == {{}} \cup {{d} : d \in Dates}

YearOf(d) == d \div 10

EventLinks == [href : Urls, inCountry : BOOLEAN, dates : DateSets]
OtherLink == [href |-> 0, inCountry |-> FALSE, dates |-> {}]
Links == EventLinks \cup {OtherLink}
Pages == UNION {[1..n -> Links] : n \in 0..MaxLinks}

Payloads == [inCountry : BOOLEAN, dates : DateSets]
CandidateMaps == UNION {[S -> Payloads] : S \in SUBSET Urls}
EmptyMap == [u \in {} |-> u]
NoGroups == [k \in 1..6 |-> <<>>]

---------------------------------------------------------------------------
(* Pure helpers *)

\* parsed_dates[0] of the ascending list _extract_dates_from_text returns
EarliestDate(dates) == CHOOSE d \in dates : \A e \in dates : d <= e

\* Event.start_date: <<>> for None, <<d>> otherwise
StartOf(dates) == IF dates = {} THEN <<>> ELSE <<EarliestDate(dates)>>

\* the display name: one per URL, ranked by its lower-cased order
NameOf(url) == NumUrls + 1 - url

MakeEvent(url, inCountry, dates) ==
    [url |-> url, name |-> NameOf(url), inCountry |-> inCountry, start |-> StartOf(dates)]

\* (e.start_date or datetime.max, e.name.lower())
SortKeyDate(e) == IF e.start = <<>> THEN DateMax ELSE e.start[1]

SortKeyLess(a, b) ==
    \/ SortKeyDate(a) < SortKeyDate(b)
    \/ SortKeyDate(a) = SortKeyDate(b) /\ a.name < b.name

RECURSIVE InsertSorted(_, _)
InsertSorted(e, s) ==
    IF s = <<>> THEN <<e>>
    ELSE IF ~SortKeyLess(Head(s), e) THEN <<e>> \o s
    ELSE <<Head(s)>> \o InsertSorted(e, Tail(s))

\* list.sort(key=...): stable, ascending
RECURSIVE SortEvents(_)
SortEvents(s) == IF s = <<>> THEN <<>> ELSE InsertSorted(Head(s), SortEvents(Tail(s)))

RECURSIVE SeqOfSet(_)
SeqOfSet(S) ==
    IF S = {} THEN <<>>
    ELSE LET m == CHOOSE x \in S : \A y \in S : x <= y
         IN <<m>> \o SeqOfSet(S \ {m})

---------------------------------------------------------------------------
(* fetch_events: classification and cascade *)

\* mutant: the exclusion compares the wrong way round and drops upcoming events
IsPastInverted(dates, t) == dates # {} /\ EarliestDate(dates) > t

\* the past-date exclusion: parsed_dates and parsed_dates[0].date() < today
IsPast(dates, t) == dates # {} /\ EarliestDate(dates) < t

\* mutant: the bare "elif in_country" is tested before the unknown-year branch
BucketOfCountryFirst(inCountry, dates, y) ==
    LET known == dates # {}
        match == known /\ YearOf(EarliestDate(dates)) = y
    IN IF inCountry /\ match THEN 1
       ELSE IF inCountry THEN 3
       ELSE IF match THEN 4
       ELSE IF ~known THEN 5
       ELSE 6

\* the if/elif chain that appends the event to one of the six lists
BucketOf(inCountry, dates, y) ==
    LET known == dates # {}
        match == known /\ YearOf(EarliestDate(dates)) = y
    IN IF inCountry /\ match THEN 1
       ELSE IF inCountry /\ ~known THEN 2
       ELSE IF inCountry THEN 3
       ELSE IF match THEN 4
       ELSE IF ~known THEN 5
       ELSE 6

RECURSIVE Classify(_, _, _, _, _)
Classify(order, cands, y, t, acc) ==
    IF order = <<>> THEN acc
    ELSE LET url == Head(order)
             p == cands[url]
         IN IF IsPast(p.dates, t)
            THEN Classify(Tail(order), cands, y, t, acc)
            ELSE LET k == BucketOf(p.inCountry, p.dates, y)
                     e == MakeEvent(url, p.inCountry, p.dates)
                 IN Classify(Tail(order), cands, y, t,
                             [acc EXCEPT ![k] = Append(@, e)])

\* the six lists after the loop and the sort of every group
BuildGroups(cands, y, t) ==
    LET raw == Classify(SeqOfSet(DOMAIN cands), cands, y, t, NoGroups)
    IN [k \in 1..6 |-> SortEvents(raw[k])]

\* mutant: the last list is returned too instead of falling through
PickPrimarySixth(g) ==
    IF g[1] # <<>> \/ g[2] # <<>> THEN [found |-> TRUE, events |-> g[1] \o g[2]]
    ELSE IF g[3] # <<>> THEN [found |-> TRUE, events |-> g[3]]
    ELSE IF g[4] # <<>> \/ g[5] # <<>> THEN [found |-> TRUE, events |-> g[4] \o g[5]]
    ELSE IF g[6] # <<>> THEN [found |-> TRUE, events |-> g[6]]
    ELSE [found |-> FALSE, events |-> <<>>]

\* the three return statements; found = FALSE is the fall-through to the mirror
PickPrimary(g) ==
    IF g[1] # <<>> \/ g[2] # <<>> THEN [found |-> TRUE, events |-> g[1] \o g[2]]
    ELSE IF g[3] # <<>> THEN [found |-> TRUE, events |-> g[3]]
    ELSE IF g[4] # <<>> \/ g[5] # <<>> THEN [found |-> TRUE, events |-> g[4] \o g[5]]
    ELSE [found |-> FALSE, events |-> <<>>]

---------------------------------------------------------------------------
(* _fetch_events_from_fallback: the mirror resolver *)

\* d[e.url] = e on an insertion-ordered dict: replace in place, else append
DictPut(d, e) ==
    IF \E i \in 1..Len(d) : d[i].url = e.url
    THEN [i \in 1..Len(d) |-> IF d[i].url = e.url THEN e ELSE d[i]]
    ELSE Append(d, e)

NoFound == [all |-> <<>>, yr |-> <<>>, ctry |-> <<>>, cy |-> <<>>, strict |-> <<>>]

\* _normalize_event_url(href) is non-empty
IsEventLink(link) == link.href \in Urls

\* one iteration of the loop over soup.find_all("a", href=True)
ScanLink(f, link, y, t) ==
    IF ~IsEventLink(link) THEN f
    ELSE LET e == MakeEvent(link.href, link.inCountry, link.dates)
             dated == link.dates # {}
             ymatch == dated /\ YearOf(EarliestDate(link.dates)) = y
             f1 == [f EXCEPT !.all = DictPut(@, e)]
             f2 == IF ymatch THEN [f1 EXCEPT !.yr = DictPut(@, e)] ELSE f1
         IN IF ~link.inCountry THEN f2
            ELSE LET f3 == [f2 EXCEPT !.ctry = DictPut(@, e)]
                     f4 == IF ymatch THEN [f3 EXCEPT !.cy = DictPut(@, e)] ELSE f3
                 IN IF dated /\ (~ymatch \/ EarliestDate(link.dates) < t)
                    THEN f4
                    ELSE [f4 EXCEPT !.strict = DictPut(@, e)]

RECURSIVE ScanLinks(_, _, _, _)
ScanLinks(page, y, t, f) ==
    IF page = <<>> THEN f
    ELSE ScanLinks(Tail(page), y, t, ScanLink(f, Head(page), y, t))

\* if today is None: today = date.today()
LocalToday(targ, clock) == IF targ = <<>> THEN <<clock>> ELSE targ

\* mutant: country-only results are preferred to year-only results
ChooseFoundCountryFirst(f, tl) ==
    IF f.strict # <<>> THEN f.strict
    ELSE IF f.cy # <<>> THEN f.cy
    ELSE IF f.ctry # <<>> THEN f.ctry
    ELSE IF f.yr # <<>> THEN f.yr
    ELSE f.all

\* mutant: the chain ends at country-only and never returns everything found
ChooseFoundNoLastResort(f, tl) ==
    IF f.strict # <<>> THEN f.strict
    ELSE IF f.cy # <<>> THEN f.cy
    ELSE IF f.yr # <<>> THEN f.yr
    ELSE f.ctry

\* the chain that binds chosen; tl is the local today when the chain runs
ChooseFound(f, tl) ==
    IF tl = <<>>
    THEN IF f.cy # <<>> THEN f.cy
         ELSE IF f.yr # <<>> THEN f.yr
         ELSE IF f.ctry # <<>> THEN f.ctry
         ELSE f.all
    ELSE IF f.strict # <<>> THEN f.strict
    ELSE IF f.cy # <<>> THEN f.cy
    ELSE IF f.yr # <<>> THEN f.yr
    ELSE IF f.ctry # <<>> THEN f.ctry
    ELSE f.all

FetchEventsFromFallback(page, y, targ, clock) ==
    LET tl == LocalToday(targ, clock)
        f == ScanLinks(page, y, tl[1], NoFound)
    IN SortEvents(ChooseFound(f, tl))

---------------------------------------------------------------------------
(* search_events_by_name: the union of the discovery result and the sweep *)

SearchLimit == 10

\* merged = {e.url: e for e in primary}
RECURSIVE DictOf(_, _)
DictOf(events, d) ==
    IF events = <<>> THEN d ELSE DictOf(Tail(events), DictPut(d, Head(events)))

\* mutant: the sweep's event replaces the one already stored for its URL
SetDefaultOverwrites(d, e) == DictPut(d, e)

\* merged.setdefault(event.url, event)
SetDefault(d, e) ==
    IF \E i \in 1..Len(d) : d[i].url = e.url THEN d ELSE Append(d, e)

RECURSIVE MergeSweep(_, _)
MergeSweep(d, found) ==
    IF found = <<>> THEN d ELSE MergeSweep(SetDefault(d, Head(found)), Tail(found))

\* events[:limit]
Truncate(events, limit) ==
    IF Len(events) <= limit THEN events ELSE SubSeq(events, 1, limit)

---------------------------------------------------------------------------
(* Actions: fetch_events, the mirror resolver, search_events_by_name *)

Init ==
    /\ op = "none"
    /\ pc = "idle"
    /\ year \in TargetYears
    /\ today \in Clock
    /\ candidates = EmptyMap
    /\ groups = NoGroups
    /\ mirrorAsked = FALSE
    /\ todayArg = <<>>
    /\ mirrorPage = <<>>
    /\ primary = <<>>
    /\ sweepPage = <<>>
    /\ sweep = <<>>
    /\ result = <<>>
    /\ outcome = "pending"
    /\ getFailed = FALSE
    /\ pagesAsked = <<>>
    /\ htmlPages = <<>>
    /\ pageIdx = 0
    /\ kindPos = 1
    /\ log = <<>>
    /\ competitors = <<>>
    /\ seen = {}
    /\ origin = <<>>
    /\ idReq = 0
    /\ idUrls = <<>>
    /\ idListing = <<>>
    /\ idFetched = <<>>
    /\ rkQuery = <<>>
    /\ rkLimit = 0
    /\ rkEvents = <<>>
    /\ rkScored = <<>>
    /\ merged = <<>>
    /\ urlShape = <<>>
    /\ urlSuffix = <<>>
    /\ urlFinal = <<>>
    /\ afRows = <<>>
    /\ afLimit = 0
    /\ afLabels = <<>>
    /\ scCompetitors = <<>>
    /\ scCalls = <<>>
    /\ scText = <<>>
    /\ scChunks = 0
    /\ scSent = <<>>
    /\ fmRows = <<>>
    /\ fmText = <<>>
    /\ rqPages = <<>>
    /\ rqIssued = <<>>
    /\ rqOutstanding = {}
    /\ rqKept = 0
    /\ ccPc = [c \in {1, 2} |-> "idle"]
    /\ ccInput = [c \in {1, 2} |-> <<>>]
    /\ ccState = [c \in {1, 2} |-> [competitors |-> <<>>, seen |-> {}, log |-> <<>>, origin |-> <<>>]]
    /\ ccResult = [c \in {1, 2} |-> <<>>]
    /\ bkCands = <<>>
    /\ bkFound = FALSE
    /\ bkResult = <<>>
    /\ rtText = <<>>
    /\ rtCalls = <<>>
    /\ rtReplies = <<>>
    /\ clPage = <<>>
    /\ clKeys = <<>>
    /\ clResult = <<>>
    /\ ppPairs = <<>>
    /\ ppScript = <<>>
    /\ ppSeenAt = <<>>
    /\ ppSeen = {}
    /\ ppRows = <<>>
    /\ dbRuns = <<>>
    /\ dbPos = 0
    /\ dbScanned = 0
    /\ dbInspected = 0
    /\ dbSeen0 = {}
    /\ dbSeen = {}
    /\ dbRows = <<>>
    /\ dbResult = <<>>
    /\ evCache = [i \in {} |-> i]
    /\ evButtons = <<{}, {}>>
    /\ evLast = <<>>
    /\ evListedBy = 0
    /\ evCount = 0
    /\ flKind = "none"
    /\ flKeywords = <<>>
    /\ flText = <<>>
    /\ flField = <<>>
    /\ flKept = FALSE

CallFetchEvents ==
    /\ UNCHANGED restVars
    /\ UNCHANGED compVars
    /\ pc = "idle"
    /\ op' = "fetch_events"
    /\ pc' = "primary_get"
    /\ UNCHANGED <<year, today, candidates, groups, mirrorAsked, todayArg, mirrorPage,
                   primary, sweepPage, sweep, result, outcome, getFailed>>

\* debug_event_discovery and search_events_by_name call the resolver with
\* today=None, fetch_events with today=today
CallFallback ==
    /\ UNCHANGED restVars
    /\ UNCHANGED compVars
    /\ pc = "idle"
    /\ op' = "fallback"
    /\ pc' = "mirror_get"
    /\ todayArg' \in {<<>>, <<today>>}
    /\ UNCHANGED <<year, today, candidates, groups, mirrorAsked, mirrorPage,
                   primary, sweepPage, sweep, result, outcome, getFailed>>

CallSearch ==
    /\ UNCHANGED restVars
    /\ UNCHANGED compVars
    /\ pc = "idle"
    /\ op' = "search"
    /\ pc' = "primary_get"
    /\ UNCHANGED <<year, today, candidates, groups, mirrorAsked, todayArg, mirrorPage,
                   primary, sweepPage, sweep, result, outcome, getFailed>>

\* fetch_events (or the resolver called alone) returns res: to the caller, or
\* into search_events_by_name, whose next statement requests the sweep and
\* which keeps nothing of fetch_events but the list
FetchEventsReturns(res) ==
    IF op = "search"
    THEN /\ primary' = res
         /\ pc' = "sweep_get"
         /\ todayArg' = <<>>
         /\ candidates' = EmptyMap
         /\ groups' = NoGroups
         /\ mirrorPage' = <<>>
         /\ UNCHANGED <<result, outcome>>
    ELSE /\ result' = res
         /\ outcome' = "returned"
         /\ pc' = "done"
         /\ UNCHANGED <<primary, todayArg>>

\* an exception leaves the public operation: no caller frame catches it
Raises ==
    /\ outcome' = "raised"
    /\ getFailed' = TRUE
    /\ pc' = "done"

\* the listing page answers 2xx: the loop, the sorts, and the return or the
\* call of the resolver
PrimaryResponse ==
    /\ UNCHANGED restVars
    /\ UNCHANGED compVars
    /\ pc = "primary_get"
    /\ \E cands \in CandidateMaps :
         LET g == BuildGroups(cands, year, today)
             pick == PickPrimary(g)
         IN IF pick.found
            THEN /\ FetchEventsReturns(pick.events)
                 /\ IF op = "search"
                    THEN UNCHANGED mirrorAsked
                    ELSE /\ candidates' = cands
                         /\ groups' = g
                         /\ UNCHANGED <<mirrorAsked, mirrorPage>>
            ELSE /\ candidates' = cands
                 /\ groups' = g
                 /\ pc' = "mirror_get"
                 /\ mirrorAsked' = TRUE
                 /\ todayArg' = <<today>>
                 /\ UNCHANGED <<primary, result, outcome, mirrorPage>>
    /\ UNCHANGED <<op, year, today, sweepPage, sweep, getFailed>>

\* client.get raises, or raise_for_status raises on a non-2xx answer
PrimaryFailure ==
    /\ UNCHANGED restVars
    /\ UNCHANGED compVars
    /\ pc = "primary_get"
    /\ Raises
    /\ UNCHANGED <<op, year, today, candidates, groups, mirrorAsked, todayArg,
                   mirrorPage, primary, sweepPage, sweep, result>>

\* the mirror page answers 2xx to the resolver
MirrorResponse ==
    /\ UNCHANGED restVars
    /\ UNCHANGED compVars
    /\ pc = "mirror_get"
    /\ \E page \in Pages :
         LET res == FetchEventsFromFallback(page, year, todayArg, today)
         IN /\ FetchEventsReturns(res)
            /\ IF op = "search"
               THEN TRUE
               ELSE /\ mirrorPage' = page
                    /\ UNCHANGED <<candidates, groups>>
    /\ UNCHANGED <<op, year, today, mirrorAsked, sweepPage, sweep, getFailed>>

MirrorFailure ==
    /\ UNCHANGED restVars
    /\ UNCHANGED compVars
    /\ pc = "mirror_get"
    /\ Raises
    /\ UNCHANGED <<op, year, today, candidates, groups, mirrorAsked, todayArg,
                   mirrorPage, primary, sweepPage, sweep, result>>

\* the mirror page answers 2xx to the sweep (today=None); then the union and,
\* the normalized query being empty, events[:limit]
SweepResponse ==
    /\ UNCHANGED <<idVars, rankVars, urlVars, filterVars, hintVars, moreVars>>
    /\ UNCHANGED compVars
    /\ pc = "sweep_get"
    /\ \E page \in Pages :
         LET fallback_broad == FetchEventsFromFallback(page, year, todayArg, today)
             events == MergeSweep(DictOf(primary, <<>>), fallback_broad)
         IN /\ sweepPage' = page
            /\ sweep' = fallback_broad
            /\ merged' = events
            /\ result' = Truncate(events, SearchLimit)
    /\ outcome' = "returned"
    /\ pc' = "done"
    /\ UNCHANGED <<op, year, today, candidates, groups, mirrorAsked, todayArg,
                   mirrorPage, primary, getFailed>>

SweepFailure ==
    /\ UNCHANGED restVars
    /\ UNCHANGED compVars
    /\ pc = "sweep_get"
    /\ Raises
    /\ UNCHANGED <<op, year, today, candidates, groups, mirrorAsked, todayArg,
                   mirrorPage, primary, sweepPage, sweep, result>>

Next ==
    \/ CallFetchEvents
    \/ PrimaryResponse
    \/ PrimaryFailure
    \/ MirrorResponse
    \/ MirrorFailure

Spec == Init /\ [][Next]_vars

NextMirror ==
    \/ CallFallback
    \/ MirrorResponse
    \/ MirrorFailure

SpecMirror == Init /\ [][NextMirror]_vars

NextSearch ==
    \/ CallSearch
    \/ PrimaryResponse
    \/ PrimaryFailure
    \/ MirrorResponse
    \/ MirrorFailure
    \/ SweepResponse
    \/ SweepFailure

SpecSearch == Init /\ [][NextSearch]_vars

---------------------------------------------------------------------------
(* fetch_competitors_for_event: sub-page fetches, five strategies, one seen set *)
(*                                                                           *)
(* A fetched sub-page is what the strategies find on it: a sequence of       *)
(* observations, each the fields one pass extracted for one candidate that   *)
(* passed the pass's own filters and reached its seen-key test.  A field the *)
(* pass did not detect is the empty string.                                  *)

MaxLog == 2

\* the head of _event_pages_to_try's list: schedule/brackets, participants
PagesToTry == <<"/schedule/brackets", "/participants">>
\* what a GET can bring: status 200, any other status, or an httpx.HTTPError
\* (timeout, connection failure)
Answers == {"200", "status", "error"}

\* the passes in the order fetch_competitors_for_event runs them on a page
PassOrder == <<"rows", "pairs", "profiles", "tables", "scripts", "blocks">>

Names == {"Ann Lee", "Bo Cruz"}
DomDivisions == {"", "Gi & NoGi"}
\* a JSON string field may hold character references: &amp;, or &#1;, the
\* reference to a code point html.unescape drops
ScriptDivisions == {"", "Gi & NoGi", "Gi &amp; NoGi", "&#1;"}
RawAcademies == {"", "Alpha"}

Observations(kind) ==
    CASE kind = "rows" ->
           [name : Names, other : {""}, division : DomDivisions, time : {""}, mat : {""},
            academy : RawAcademies]
      [] kind = "pairs" ->
           {o \in [name : Names, other : Names, division : DomDivisions, time : {""},
                   mat : {""}, academy : RawAcademies] : o.name # o.other}
      [] kind = "profiles" ->
           [name : Names, other : {""}, division : DomDivisions, time : {""}, mat : {""},
            academy : RawAcademies]
      [] kind = "tables" ->
           [name : Names, other : {""}, division : DomDivisions, time : {""}, mat : {""},
            academy : RawAcademies \ {""}]
      [] kind = "scripts" ->
           [name : Names, other : {""}, division : ScriptDivisions, time : {""}, mat : {""},
            academy : RawAcademies]
      [] kind = "blocks" ->
           [name : Names, other : {""}, division : DomDivisions, time : {""}, mat : {""},
            academy : RawAcademies]

\* Python's  x or d
OrElse(x, d) == IF x = "" THEN d ELSE x

\* html.unescape on the strings of the model
Unescape(x) ==
    CASE x = "Gi &amp; NoGi" -> "Gi & NoGi"
      [] x = "&#1;" -> ""
      [] OTHER -> x

MakeRow(name, academy, division, opponent, match_time, mat, source_url) ==
    [competitor_name |-> name, academy |-> academy, division |-> division,
     opponent |-> opponent, match_time |-> match_time, mat |-> mat,
     source_url |-> source_url]

\* _parse_schedule_brackets_page, the loop over <tr>: one name of one row
RowCandidates(o, src) ==
    LET division == OrElse(o.division, "TBD")
        match_time == OrElse(o.time, "TBD")
        mat == OrElse(o.mat, "TBD")
        affiliate == OrElse(o.academy, "Unknown")
    IN << [key |-> <<o.name, division, match_time, mat>>,
           rec |-> MakeRow(o.name, affiliate, division, "TBD", match_time, mat, src)] >>

\* _parse_schedule_brackets_page, the loop over <script>: one "A vs B" pair,
\* tried as (A, B) and then as (B, A)
PairCandidates(o, src) ==
    LET division == OrElse(o.division, "TBD")
        match_time == OrElse(o.time, "TBD")
        mat == OrElse(o.mat, "TBD")
        affiliate == OrElse(o.academy, "Unknown")
    IN << [key |-> <<o.name, division, match_time, mat>>,
           rec |-> MakeRow(o.name, affiliate, division, o.other, match_time, mat, src)],
          [key |-> <<o.other, division, match_time, mat>>,
           rec |-> MakeRow(o.other, affiliate, division, o.name, match_time, mat, src)] >>

\* _parse_participant_profile_links: one profile link and its card
ProfileCandidates(o, src) ==
    LET affiliate == OrElse(o.academy, "Unknown")
        division == OrElse(o.division, "TBD")
        match_time == OrElse(o.time, "TBD")
        mat == OrElse(o.mat, "TBD")
    IN << [key |-> <<o.name, division, match_time, mat>>,
           rec |-> MakeRow(o.name, affiliate, division, "TBD", match_time, mat, src)] >>

\* _parse_competitor_tables: one <tr>; the key is built with "" for a missing
\* field, the record with "TBD"
TableCandidates(o, src) ==
    << [key |-> <<o.name, OrElse(o.division, ""), OrElse(o.time, ""), OrElse(o.mat, "")>>,
        rec |-> MakeRow(o.name, o.academy, OrElse(o.division, "TBD"), "TBD",
                        OrElse(o.time, "TBD"), OrElse(o.mat, "TBD"), src)] >>

\* _parse_competitor_scripts and _parse_competitor_script_windows: one object
\* or window; the key is built from the raw fields, the record from their
\* unescaped forms
ScriptCandidates(o, src) ==
    LET affiliate == OrElse(o.academy, "Unknown")
        division == OrElse(o.division, "TBD")
        mat == OrElse(o.mat, "TBD")
        match_time == OrElse(o.time, "TBD")
    IN << [key |-> <<o.name, division, match_time, mat>>,
           rec |-> MakeRow(Unescape(o.name), Unescape(affiliate), Unescape(division),
                           Unescape("TBD"), Unescape(match_time), Unescape(mat), src)] >>

\* _parse_competitor_blocks: one selected node
BlockCandidates(o, src) ==
    LET affiliate == OrElse(o.academy, "Team match")
        division == OrElse(o.division, "TBD")
        mat == OrElse(o.mat, "TBD")
        match_time == OrElse(o.time, "TBD")
    IN << [key |-> <<o.name, division, match_time, mat>>,
           rec |-> MakeRow(o.name, affiliate, division, "TBD", match_time, mat, src)] >>

CandidatesOf(kind, o, src) ==
    CASE kind = "rows" -> RowCandidates(o, src)
      [] kind = "pairs" -> PairCandidates(o, src)
      [] kind = "profiles" -> ProfileCandidates(o, src)
      [] kind = "tables" -> TableCandidates(o, src)
      [] kind = "scripts" -> ScriptCandidates(o, src)
      [] kind = "blocks" -> BlockCandidates(o, src)

\* mutant: a later candidate with a seen key replaces the recorded one
EmitLastWins(st, cand) ==
    LET lg == Append(st.log, cand)
    IN IF cand.key \in st.seen
       THEN [st EXCEPT !.log = lg,
                       !.competitors = [i \in 1..Len(st.competitors) |->
                                          IF st.log[st.origin[i]].key = cand.key
                                          THEN cand.rec ELSE st.competitors[i]],
                       !.origin = [i \in 1..Len(st.origin) |->
                                     IF st.log[st.origin[i]].key = cand.key
                                     THEN Len(lg) ELSE st.origin[i]]]
       ELSE [competitors |-> Append(st.competitors, cand.rec),
             seen |-> st.seen \cup {cand.key},
             log |-> lg,
             origin |-> Append(st.origin, Len(lg))]

\* if key in seen: continue / seen.add(key) / rows.append(...)
Emit(st, cand) ==
    LET lg == Append(st.log, cand)
    IN IF cand.key \in st.seen
       THEN [st EXCEPT !.log = lg]
       ELSE [competitors |-> Append(st.competitors, cand.rec),
             seen |-> st.seen \cup {cand.key},
             log |-> lg,
             origin |-> Append(st.origin, Len(lg))]

RECURSIVE EmitAll(_, _, _, _)
EmitAll(st, cands, page, kind) ==
    IF cands = <<>> THEN st
    ELSE EmitAll(Emit(st, [page |-> page, kind |-> kind,
                           key |-> Head(cands).key, rec |-> Head(cands).rec]),
                 Tail(cands), page, kind)

\* mutant: the status test is missing and every answered page is kept
AfterGetAnyStatus(pages, url, answer) ==
    IF answer # "error" THEN Append(pages, url) ELSE pages

\* one iteration of the fetch loop: html_pages after the GET of url
AfterGet(pages, url, answer) ==
    IF answer = "200" THEN Append(pages, url) ELSE pages

CallCompetitors ==
    /\ UNCHANGED restVars
    /\ pc = "idle"
    /\ op' = "competitors"
    /\ pc' = "fetch_pages"
    /\ UNCHANGED <<year, today, candidates, groups, mirrorAsked, todayArg, mirrorPage,
                   primary, sweepPage, sweep, result, outcome, getFailed, compVars>>

\* client.get(url) inside the try: a 200 is kept, any other status is dropped,
\* an httpx.HTTPError is swallowed by the except clause
GetSubPage ==
    /\ UNCHANGED restVars
    /\ pc = "fetch_pages"
    /\ Len(pagesAsked) < Len(PagesToTry)
    /\ \E answer \in Answers :
         LET url == PagesToTry[Len(pagesAsked) + 1]
         IN /\ pagesAsked' = Append(pagesAsked, [url |-> url, answer |-> answer])
            /\ htmlPages' = AfterGet(htmlPages, url, answer)
            /\ getFailed' = (getFailed \/ answer # "200")
    /\ pc' = IF Len(pagesAsked) + 1 = Len(PagesToTry) THEN "parse" ELSE "fetch_pages"
    /\ UNCHANGED <<op, year, today, candidates, groups, mirrorAsked, todayArg, mirrorPage,
                   primary, sweepPage, sweep, result, outcome,
                   pageIdx, kindPos, log, competitors, seen, origin>>

\* for source_url, html in html_pages: the next page is taken
NextPage ==
    /\ UNCHANGED restVars
    /\ pc = "parse"
    /\ pageIdx < Len(htmlPages)
    /\ pageIdx' = pageIdx + 1
    /\ kindPos' = 1
    /\ UNCHANGED <<op, pc, year, today, candidates, groups, mirrorAsked, todayArg,
                   mirrorPage, primary, sweepPage, sweep, result, outcome, getFailed,
                   pagesAsked, htmlPages, log, competitors, seen, origin>>

\* the current pass, or a later pass of the same page, reaches the seen-key
\* test with one observation
Observe ==
    /\ UNCHANGED restVars
    /\ pc = "parse"
    /\ pageIdx >= 1
    /\ \E k \in kindPos..Len(PassOrder) :
         \E o \in Observations(PassOrder[k]) :
           LET src == htmlPages[pageIdx]
               cands == CandidatesOf(PassOrder[k], o, src)
               st == EmitAll([competitors |-> competitors, seen |-> seen,
                              log |-> log, origin |-> origin],
                             cands, pageIdx, k)
           IN /\ Len(log) + Len(cands) <= MaxLog
              /\ kindPos' = k
              /\ competitors' = st.competitors
              /\ seen' = st.seen
              /\ log' = st.log
              /\ origin' = st.origin
    /\ UNCHANGED <<op, pc, year, today, candidates, groups, mirrorAsked, todayArg,
                   mirrorPage, primary, sweepPage, sweep, result, outcome, getFailed,
                   pagesAsked, htmlPages, pageIdx>>

\* return competitors, after the last page of html_pages
ReturnCompetitors ==
    /\ UNCHANGED restVars
    /\ pc = "parse"
    /\ pageIdx = Len(htmlPages)
    /\ result' = competitors
    /\ outcome' = "returned"
    /\ pc' = "done"
    /\ UNCHANGED <<op, year, today, candidates, groups, mirrorAsked, todayArg,
                   mirrorPage, primary, sweepPage, sweep, getFailed, compVars>>

NextCompetitors ==
    \/ CallCompetitors
    \/ GetSubPage
    \/ NextPage
    \/ Observe
    \/ ReturnCompetitors

SpecCompetitors == Init /\ [][NextCompetitors]_vars

---------------------------------------------------------------------------
(* Vocabulary of the properties: the tiers stated on the inputs, not on the  *)
(* lists the code builds                                                     *)

UrlsOf(s) == {s[i].url : i \in 1..Len(s)}
NoRepeat(s) == \A i, j \in 1..Len(s) : i # j => s[i].url # s[j].url
AllBefore(s, A, B) ==
    \A i, j \in 1..Len(s) : (s[i].url \in A /\ s[j].url \in B) => i < j
NotPast(e) == e.start = <<>> \/ e.start[1] >= today

Returned == pc = "done" /\ outcome = "returned"
PrimaryParsed == pc = "mirror_get" \/ (pc = "done" /\ (outcome = "returned" \/ mirrorAsked))

YearStatus(dates) ==
    IF dates = {} THEN "unknown"
    ELSE IF \E d \in dates : (\A e \in dates : d <= e) /\ YearOf(d) = year THEN "match"
    ELSE "mismatch"

Survives(u) ==
    \/ candidates[u].dates = {}
    \/ \A d \in candidates[u].dates : d >= today

Tier(country, ys) ==
    CASE country /\ ys = "match" -> 1
      [] country /\ ys = "unknown" -> 2
      [] country /\ ys = "mismatch" -> 3
      [] ~country /\ ys = "match" -> 4
      [] ~country /\ ys = "unknown" -> 5
      [] ~country /\ ys = "mismatch" -> 6

TierOf(u) == Tier(candidates[u].inCountry, YearStatus(candidates[u].dates))
TierUrls(k) == {u \in DOMAIN candidates : Survives(u) /\ TierOf(u) = k}

MirrorLinks(page) == {page[i] : i \in {j \in 1..Len(page) : page[j].href # 0}}
LinkYearMatch(l) == YearStatus(l.dates) = "match"
LinkStrict(l) ==
    l.inCountry /\ (l.dates = {} \/ (LinkYearMatch(l) /\ \A d \in l.dates : d >= today))
HrefsOf(links) == {l.href : l \in links}
MirrorAll(page) == HrefsOf(MirrorLinks(page))
MirrorYear(page) == HrefsOf({l \in MirrorLinks(page) : LinkYearMatch(l)})
MirrorCountry(page) == HrefsOf({l \in MirrorLinks(page) : l.inCountry})
MirrorCountryYear(page) == HrefsOf({l \in MirrorLinks(page) : l.inCountry /\ LinkYearMatch(l)})
MirrorStrict(page) == HrefsOf({l \in MirrorLinks(page) : LinkStrict(l)})

RECURSIVE FirstNonEmpty(_)
FirstNonEmpty(tiers) ==
    IF tiers = <<>> THEN {}
    ELSE IF Head(tiers) # {} THEN Head(tiers)
    ELSE FirstNonEmpty(Tail(tiers))

---------------------------------------------------------------------------
(* Properties of event discovery *)

\* C1: fetch_events returns bucket 1 followed by bucket 2 if either is
\* non-empty, otherwise bucket 3 alone, otherwise bucket 4 followed by bucket
\* 5, and requests the mirror exactly when buckets 1 to 5 are all empty,
\* whatever bucket 6 holds; then every returned event is one of the mirror page.
CascadeOrder ==
    /\ PrimaryParsed => (mirrorAsked <=> \A k \in 1..5 : TierUrls(k) = {})
    /\ Returned =>
         /\ NoRepeat(result)
         /\ IF TierUrls(1) \cup TierUrls(2) # {}
            THEN /\ UrlsOf(result) = TierUrls(1) \cup TierUrls(2)
                 /\ AllBefore(result, TierUrls(1), TierUrls(2))
            ELSE IF TierUrls(3) # {}
            THEN UrlsOf(result) = TierUrls(3)
            ELSE IF TierUrls(4) \cup TierUrls(5) # {}
            THEN /\ UrlsOf(result) = TierUrls(4) \cup TierUrls(5)
                 /\ AllBefore(result, TierUrls(4), TierUrls(5))
            ELSE \A i \in 1..Len(result) :
                    \E l \in MirrorLinks(mirrorPage) :
                        result[i] = MakeEvent(l.href, l.inCountry, l.dates)

\* a listing with only bucket-6 candidates fell through and the mirror answered events
CascadeWitness ==
    /\ Returned
    /\ mirrorAsked
    /\ TierUrls(6) # {}
    /\ result # <<>>

\* C2: every candidate that survives the past-date exclusion is in exactly one
\* of the six lists, the one its (country, year status) pair names, and an
\* excluded candidate is in none; when bucket 1 is non-empty all of it is
\* returned and nothing of buckets 3 to 6 is.
BucketPartition ==
    PrimaryParsed =>
      /\ \A u \in DOMAIN candidates :
           LET ks == {k \in 1..6 : u \in UrlsOf(groups[k])}
           IN IF Survives(u) THEN ks = {TierOf(u)} ELSE ks = {}
      /\ \A k \in 1..6 : NoRepeat(groups[k]) /\ UrlsOf(groups[k]) \subseteq DOMAIN candidates
      /\ (Returned /\ TierUrls(1) # {}) =>
           /\ TierUrls(1) \subseteq UrlsOf(result)
           /\ UrlsOf(result) \cap UNION {TierUrls(k) : k \in 3..6} = {}

\* a bucket-1 candidate was returned while a country candidate of another year was listed
BucketWitness ==
    /\ Returned
    /\ TierUrls(1) # {}
    /\ TierUrls(3) # {}
    /\ UrlsOf(result) = TierUrls(1)

\* C3 as stated: no event fetch_events returns starts before today, from the
\* listing or from the mirror fall-through.
NoPastEventReturned ==
    Returned => \A i \in 1..Len(result) : NotPast(result[i])

\* C3 as amended: nothing returned from the listing's buckets starts before
\* today; the fall-through returns a past event only when the mirror page has
\* no strict link (country-matched, and undated or dated in the target year
\* on or after today); an undated candidate is never excluded from the lists.
NoPastEventFromListing ==
    /\ (Returned /\ ~mirrorAsked) => \A i \in 1..Len(result) : NotPast(result[i])
    /\ (Returned /\ mirrorAsked /\ MirrorStrict(mirrorPage) # {}) =>
           \A i \in 1..Len(result) : NotPast(result[i])
    /\ PrimaryParsed =>
           \A u \in DOMAIN candidates :
               candidates[u].dates = {} => \E k \in {2, 5} : u \in UrlsOf(groups[k])

\* the listing showed a past candidate that was dropped and an upcoming one that was returned
PastExcludedWitness ==
    /\ Returned
    /\ ~mirrorAsked
    /\ \E u \in DOMAIN candidates : ~Survives(u)
    /\ result # <<>>

\* C6: fetch_events raises only if a GET failed, and with both pages answered
\* it returns the empty list exactly when buckets 1 to 5 are empty and the
\* mirror page holds no event link.
EmptyOnlyWhenNothingFound ==
    /\ outcome = "raised" => getFailed
    /\ Returned =>
         (result = <<>> <=>
            /\ \A k \in 1..5 : TierUrls(k) = {}
            /\ MirrorAll(mirrorPage) = {})
    /\ (Returned /\ mirrorAsked /\ MirrorAll(mirrorPage) # {}) => result # <<>>

\* both sources were exhausted: only unusable candidates, only foreign links, empty list
EmptyWitness ==
    /\ Returned
    /\ mirrorAsked
    /\ DOMAIN candidates # {}
    /\ mirrorPage # <<>>
    /\ result = <<>>

\* C9 as stated: no failure of a GET leaves a public operation as an exception.
NoFailureEscapes == outcome # "raised"

---------------------------------------------------------------------------
(* Properties of the mirror resolver and of the sweep *)

\* C5 as stated: the resolver returns the first non-empty of country+year,
\* year only, country only, everything found.
MirrorFourTiers ==
    (Returned /\ op = "fallback") =>
        UrlsOf(result) = FirstNonEmpty(<<MirrorCountryYear(mirrorPage), MirrorYear(mirrorPage),
                                         MirrorCountry(mirrorPage), MirrorAll(mirrorPage)>>)

\* C5 as amended: whatever its today argument, the resolver returns the first
\* non-empty of the strict links, country+year, year only, country only,
\* everything found, one event per URL.
MirrorFiveTiers ==
    (Returned /\ op = "fallback") =>
        /\ NoRepeat(result)
        /\ UrlsOf(result) = FirstNonEmpty(<<MirrorStrict(mirrorPage), MirrorCountryYear(mirrorPage),
                                            MirrorYear(mirrorPage), MirrorCountry(mirrorPage),
                                            MirrorAll(mirrorPage)>>)

\* called with a today date, the resolver returned the strict links, an
\* undated country link among them, although country+year links were there
MirrorStrictWitness ==
    /\ Returned
    /\ op = "fallback"
    /\ todayArg = <<today>>
    /\ MirrorCountryYear(mirrorPage) # {}
    /\ MirrorStrict(mirrorPage) # MirrorCountryYear(mirrorPage)
    /\ UrlsOf(result) = MirrorStrict(mirrorPage)
    /\ \E i \in 1..Len(result) : result[i].start = <<>>

\* C4 as stated: the sweep of search_events_by_name applies no date filter, so
\* what it returns does not depend on the day it runs.
SweepIgnoresToday ==
    (Returned /\ op = "search") =>
        \A t \in Dates \cup Clock :
            sweep = FetchEventsFromFallback(sweepPage, year, <<>>, t)

---------------------------------------------------------------------------
(* Properties of competitor extraction *)

KeyFields(r) == <<r.competitor_name, r.division, r.match_time, r.mat>>
Answered200 == {pagesAsked[i].url : i \in {j \in 1..Len(pagesAsked) : pagesAsked[j].answer = "200"}}
CompetitorsDone == op = "competitors" /\ pc = "done"

\* C7 as stated: the returned list never holds two records equal on
\* (competitor_name, division, match_time, mat).
NoDuplicateRecords ==
    CompetitorsDone =>
        \A i, j \in 1..Len(result) :
            i # j => KeyFields(result[i]) # KeyFields(result[j])

\* C8: every record of the list was built from the earliest candidate, in
\* processing order, that carried its seen-key; every seen key has exactly one
\* record; candidates are processed page by page in fetch order and pass by
\* pass within a page; a later candidate never changes or replaces a record.
FirstWriterWins ==
    /\ Len(origin) = Len(competitors)
    /\ \A i \in 1..Len(competitors) :
         /\ origin[i] \in 1..Len(log)
         /\ competitors[i] = log[origin[i]].rec
         /\ \A j \in 1..Len(log) :
                log[j].key = log[origin[i]].key => origin[i] <= j
         /\ \A j \in 1..Len(competitors) : i < j => origin[i] < origin[j]
    /\ seen = {log[j].key : j \in 1..Len(log)}
    /\ \A k \in seen : Cardinality({i \in 1..Len(origin) : log[origin[i]].key = k}) = 1
    /\ \A i, j \in 1..Len(log) :
         i < j => \/ log[i].page < log[j].page
                  \/ log[i].page = log[j].page /\ log[i].kind <= log[j].kind
    /\ CompetitorsDone => result = competitors

\* two candidates with one key and different academies were seen; the list holds the first
FirstWriterWitness ==
    /\ CompetitorsDone
    /\ Len(log) = 2
    /\ log[1].key = log[2].key
    /\ log[1].rec.academy # log[2].rec.academy
    /\ log[1].kind < log[2].kind
    /\ result = <<log[1].rec>>

\* C10: a sub-page whose GET fails or answers another status than 200 gives no
\* data and stops nothing: every sub-page is requested once, in order, the call
\* returns, the pages parsed are exactly those answered 200, and every
\* candidate and every record comes from one of them.
FailedPagesSkipped ==
    /\ \A i \in 1..Len(pagesAsked) : pagesAsked[i].url = PagesToTry[i]
    /\ Len(pagesAsked) <= Len(PagesToTry)
    /\ op = "competitors" => outcome # "raised"
    /\ (op = "competitors" /\ pc \in {"parse", "done"}) =>
         /\ Len(pagesAsked) = Len(PagesToTry)
         /\ {htmlPages[i] : i \in 1..Len(htmlPages)} = Answered200
         /\ \A i \in 1..Len(log) : htmlPages[log[i].page] \in Answered200
         /\ \A i \in 1..Len(competitors) : competitors[i].source_url \in Answered200
    /\ CompetitorsDone =>
         /\ pageIdx = Len(htmlPages)
         /\ Len(htmlPages) = Cardinality(Answered200)

\* the first sub-page failed and records of a later one were returned
FailedPageWitness ==
    /\ CompetitorsDone
    /\ pagesAsked[1].answer # "200"
    /\ result # <<>>
    /\ \A i \in 1..Len(result) : result[i].source_url = PagesToTry[2]

---------------------------------------------------------------------------
(* URLs as strings.  A URL is a sequence of lexemes, the units the code's    *)
(* regular expressions and string methods tell apart: a scheme-and-host, the *)
(* slash, a two-letter locale, the word event in lower or upper case, a      *)
(* decimal digit, a slug word, the question mark and a query word.           *)

MaxIdLen == 2

Host == "https://smoothcomp.com"
MirrorHost == "https://compseek.net"
Hosts == {Host, MirrorHost}
Locales == {"en"}
EventWords == {"event", "EVENT"}
Digits == {"1", "2"}
Slugs == {"open"}

\* the digit strings of length 1..MaxIdLen
DigitStrings == UNION {[1..n -> Digits] : n \in 1..MaxIdLen}

\* f"https://smoothcomp.com/en/event/{event_id}"
EventUrlFromId(event_id) == <<Host, "/", "en", "/", "event", "/">> \o event_id

\* f"https://smoothcomp.com/event/{event_id}"
BareEventUrl(event_id) == <<Host, "/", "event", "/">> \o event_id

\* the end of the longest run of digits of u that starts at i (i - 1 if none): \d+ is greedy
RECURSIVE DigitRunEnd(_, _)
DigitRunEnd(u, i) ==
    IF i <= Len(u) /\ u[i] \in Digits THEN DigitRunEnd(u, i + 1) ELSE i - 1

\* re.search(r"/event/(\d+)", url), case-sensitive: the start of the leftmost match, 0 if none
IdMatchStart(u) ==
    LET starts == {i \in 1..Len(u) :
                     /\ i + 3 <= Len(u)
                     /\ u[i] = "/" /\ u[i + 1] = "event" /\ u[i + 2] = "/"
                     /\ u[i + 3] \in Digits}
    IN IF starts = {} THEN 0 ELSE CHOOSE i \in starts : \A j \in starts : i <= j

\* mutant: the identifier keeps only the first digit of the segment
EventIdFirstDigit(u) ==
    LET i == IdMatchStart(u)
    IN IF i = 0 THEN u ELSE <<u[i + 3]>>

\* _event_id_from_url: match.group(1) if match else url
EventIdFromUrl(u) ==
    LET i == IdMatchStart(u)
    IN IF i = 0 THEN u ELSE SubSeq(u, i + 3, DigitRunEnd(u, i + 3))

\* url.split("?", 1)[0]
RECURSIVE SplitQuery(_)
SplitQuery(u) ==
    IF u = <<>> \/ Head(u) = "?" THEN <<>> ELSE <<Head(u)>> \o SplitQuery(Tail(u))

\* url.rstrip("/")
RECURSIVE RStripSlash(_)
RStripSlash(u) ==
    IF u # <<>> /\ u[Len(u)] = "/" THEN RStripSlash(SubSeq(u, 1, Len(u) - 1)) ELSE u

\* the end of the match of (https?://[^/]+/(?:[a-z]{2}/)?event/\d+), re.IGNORECASE,
\* that starts at i; 0 if none starts there
CanonicalMatchEnd(u, i) ==
    IF ~(i + 1 <= Len(u) /\ u[i] \in Hosts /\ u[i + 1] = "/") THEN 0
    ELSE IF /\ i + 6 <= Len(u)
            /\ u[i + 2] \in Locales /\ u[i + 3] = "/"
            /\ u[i + 4] \in EventWords /\ u[i + 5] = "/" /\ u[i + 6] \in Digits
         THEN DigitRunEnd(u, i + 6)
    ELSE IF /\ i + 4 <= Len(u)
            /\ u[i + 2] \in EventWords /\ u[i + 3] = "/" /\ u[i + 4] \in Digits
         THEN DigitRunEnd(u, i + 4)
    ELSE 0

\* mutant: the query string is not cut off before the trailing slashes are stripped
CanonicalKeepsQuery(url) ==
    LET u == RStripSlash(url)
        starts == {i \in 1..Len(u) : CanonicalMatchEnd(u, i) # 0}
    IN IF starts = {} THEN u
       ELSE LET i == CHOOSE k \in starts : \A j \in starts : k <= j
            IN SubSeq(u, i, CanonicalMatchEnd(u, i))

\* _canonical_event_url
CanonicalEventUrl(url) ==
    LET u == RStripSlash(SplitQuery(url))
        starts == {i \in 1..Len(u) : CanonicalMatchEnd(u, i) # 0}
    IN IF starts = {} THEN u
       ELSE LET i == CHOOSE k \in starts : \A j \in starts : k <= j
            IN SubSeq(u, i, CanonicalMatchEnd(u, i))

---------------------------------------------------------------------------
(* fetch_event_by_id: candidate URLs for an id, resolved one at a time *)

MaxSeen == 2

IdsAsked == {<<"1">>, <<"1", "2">>}

\* the shapes pattern_rel finds for the id on a listing page
SeenForms == {"en", "bare", "slug"}

\* pages = [self.base_events_url, self.fallback_events_url], by their hosts
ListingHosts == <<Host, MirrorHost>>

\* what a listing page can bring: an error, another status, or status 200
\* with the matches of the id in document order
ListingAnswers ==
    {[kind |-> "error", forms |-> <<>>], [kind |-> "status", forms |-> <<>>]}
    \cup {[kind |-> "200", forms |-> f] : f \in UNION {[1..n -> SeenForms] : n \in 0..MaxSeen}}

\* urljoin(str(resp.url), m): the match on the host of the page it was found on
ObservedUrl(pageHost, form, event_id) ==
    CASE form = "en" -> <<pageHost, "/", "en", "/", "event", "/">> \o event_id
      [] form = "bare" -> <<pageHost, "/", "event", "/">> \o event_id
      [] form = "slug" -> <<pageHost, "/", "en", "/", "event", "/">> \o event_id \o <<"/", "open">>

\* candidates[key] = None on an insertion-ordered dict
AddCandidate(urls, u) ==
    IF \E i \in 1..Len(urls) : urls[i] = u THEN urls ELSE Append(urls, u)

RECURSIVE AddObserved(_, _, _, _)
AddObserved(urls, pageHost, forms, event_id) ==
    IF forms = <<>> THEN urls
    ELSE AddObserved(AddCandidate(urls, ObservedUrl(pageHost, Head(forms), event_id)),
                     pageHost, Tail(forms), event_id)

\* the dict literal _candidate_event_urls_for_id starts from
CanonicalGuesses(event_id) == <<EventUrlFromId(event_id), BareEventUrl(event_id)>>

\* str(response.url) of a loaded page: the requested URL, or, where the client
\* follows redirects, the URL of another event or of a page that is no event
FinalUrls(url) ==
    {url} \cup {EventUrlFromId(<<"2">>), EventUrlFromId(<<"2", "1">>), <<Host, "/", "en", "/", "open">>}

\* the Event fetch_event_by_url builds from a loaded page
EventOfPage(final) ==
    LET final_url == CanonicalEventUrl(final)
    IN [id |-> EventIdFromUrl(final_url), url |-> final_url]

\* mutant: any candidate that loads is accepted
AcceptsAnyEvent(event, event_id) == event # <<>>

\* event is not None and event.id == event_id
Accepts(event, event_id) == event # <<>> /\ event[1].id = event_id

CallById ==
    /\ UNCHANGED <<rankVars, merged, urlVars, filterVars, hintVars, moreVars>>
    /\ pc = "idle"
    /\ op' = "by_id"
    /\ pc' = "id_listing"
    /\ \E i \in IdsAsked :
         /\ idReq' = i
         /\ idUrls' = CanonicalGuesses(i)
    /\ UNCHANGED <<year, today, candidates, groups, mirrorAsked, todayArg, mirrorPage,
                   primary, sweepPage, sweep, result, outcome, getFailed, compVars,
                   idListing, idFetched>>

\* one iteration of the loop over the two listing pages
IdListingGet ==
    /\ UNCHANGED <<rankVars, merged, urlVars, filterVars, hintVars, moreVars>>
    /\ pc = "id_listing"
    /\ \E a \in ListingAnswers :
         /\ idListing' = Append(idListing, a.kind)
         /\ idUrls' = IF a.kind = "200"
                      THEN AddObserved(idUrls, ListingHosts[Len(idListing) + 1], a.forms, idReq)
                      ELSE idUrls
         /\ getFailed' = (getFailed \/ a.kind # "200")
    /\ pc' = IF Len(idListing) + 1 = Len(ListingHosts) THEN "id_fetch" ELSE "id_listing"
    /\ UNCHANGED <<op, year, today, candidates, groups, mirrorAsked, todayArg, mirrorPage,
                   primary, sweepPage, sweep, result, outcome, compVars, idReq, idFetched>>

\* one iteration of the loop of fetch_event_by_id: fetch_event_by_url on the
\* next candidate, then the test of the event's id
IdFetchNext ==
    /\ UNCHANGED <<rankVars, merged, urlVars, filterVars, hintVars, moreVars>>
    /\ pc = "id_fetch"
    /\ Len(idFetched) < Len(idUrls)
    /\ LET url == idUrls[Len(idFetched) + 1]
       IN \E event \in {<<>>} \cup {<<EventOfPage(f)>> : f \in FinalUrls(url)} :
            /\ idFetched' = Append(idFetched, [url |-> url, event |-> event])
            /\ getFailed' = (getFailed \/ event = <<>>)
            /\ IF Accepts(event, idReq)
               THEN /\ result' = event
                    /\ outcome' = "returned"
                    /\ pc' = "done"
               ELSE UNCHANGED <<result, outcome, pc>>
    /\ UNCHANGED <<op, year, today, candidates, groups, mirrorAsked, todayArg, mirrorPage,
                   primary, sweepPage, sweep, compVars, idReq, idUrls, idListing>>

\* return None after the last candidate
IdReturnNone ==
    /\ UNCHANGED <<rankVars, merged, urlVars, filterVars, hintVars, moreVars>>
    /\ pc = "id_fetch"
    /\ Len(idFetched) = Len(idUrls)
    /\ result' = <<>>
    /\ outcome' = "returned"
    /\ pc' = "done"
    /\ UNCHANGED <<op, year, today, candidates, groups, mirrorAsked, todayArg, mirrorPage,
                   primary, sweepPage, sweep, getFailed, compVars, idVars>>

NextById ==
    \/ CallById
    \/ IdListingGet
    \/ IdFetchNext
    \/ IdReturnNone

SpecById == Init /\ [][NextById]_vars

---------------------------------------------------------------------------
(* Properties of identifier-based resolution *)

ByIdDone == op = "by_id" /\ pc = "done"

\* C11: fetch_event_by_id returns None or an Event whose id is the requested
\* one; the candidates are fetched one at a time in list order, the two
\* canonical guesses first whatever the listing pages answered; the first
\* candidate that resolves to the requested id is returned and none after it
\* is fetched; a candidate that fails to load or resolves to another id is
\* passed over; nothing is raised.
IdResolution ==
    op = "by_id" =>
      /\ outcome # "raised"
      /\ Len(idUrls) >= 2
      /\ idUrls[1] = <<Host, "/", "en", "/", "event", "/">> \o idReq
      /\ idUrls[2] = <<Host, "/", "event", "/">> \o idReq
      /\ \A i, j \in 1..Len(idUrls) : i # j => idUrls[i] # idUrls[j]
      /\ Len(idFetched) <= Len(idUrls)
      /\ \A i \in 1..Len(idFetched) : idFetched[i].url = idUrls[i]
      /\ \A i \in 1..(Len(idFetched) - 1) :
           idFetched[i].event = <<>> \/ idFetched[i].event[1].id # idReq
      /\ ByIdDone =>
           /\ Len(idListing) = 2
           /\ IF result = <<>>
              THEN /\ Len(idFetched) = Len(idUrls)
                   /\ \A i \in 1..Len(idFetched) :
                        idFetched[i].event = <<>> \/ idFetched[i].event[1].id # idReq
              ELSE /\ result[1].id = idReq
                   /\ idFetched # <<>>
                   /\ result = idFetched[Len(idFetched)].event

\* the first listing page failed, the two guesses did not resolve to the id,
\* the third candidate did, and a fourth was never fetched
IdResolutionWitness ==
    /\ ByIdDone
    /\ idListing[1] # "200"
    /\ result # <<>>
    /\ Len(idFetched) = 3
    /\ idFetched[1].event = <<>>
    /\ idFetched[2].event # <<>>
    /\ Len(idUrls) > 3

---------------------------------------------------------------------------
(* search_events_by_name: scoring and ranking of the merged events.  A name  *)
(* is a sequence of characters; "2026" stands for the digits of a year.      *)

MaxEvents == 2

\* characters in code-point order
CharOrder == <<" ", "-", "2026", "A", "B", "a", "b">>
CharRank(c) == CHOOSE i \in 1..Len(CharOrder) : CharOrder[i] = c

RawNames ==
    { <<"a", " ", "b">>, <<"A", " ", "b">>, <<"a", " ", "b", " ", "2026">>,
      <<"B", "-">>, <<"b", " ", "a">>, <<"2026">>, <<"-">> }

RawQueries ==
    { <<"a", " ", "b">>, <<" ", "A", " ", " ", "b">>, <<"b">>,
      <<"a", " ", "b", " ", "b">>, <<"-", " ">> }

Limits == {1, SearchLimit}
Starts == {<<>>, <<20263>>, <<20271>>}
YearString(y) == IF y = 2026 THEN <<"2026">> ELSE <<"other">>

\* str.lower()
LowerChar(c) == IF c = "A" THEN "a" ELSE IF c = "B" THEN "b" ELSE c
LowerStr(t) == [i \in 1..Len(t) |-> LowerChar(t[i])]

\* re.sub(r"\s+", " ", text)
RECURSIVE CollapseSpaces(_)
CollapseSpaces(t) ==
    IF Len(t) < 2 THEN t
    ELSE IF t[1] = " " /\ t[2] = " " THEN CollapseSpaces(Tail(t))
    ELSE <<t[1]>> \o CollapseSpaces(Tail(t))

\* str.strip()
RECURSIVE Strip(_)
Strip(t) ==
    IF t # <<>> /\ t[1] = " " THEN Strip(Tail(t))
    ELSE IF t # <<>> /\ t[Len(t)] = " " THEN Strip(SubSeq(t, 1, Len(t) - 1))
    ELSE t

\* re.sub(r"[^a-z0-9 ]+", "", text)
RECURSIVE DropOthers(_)
DropOthers(t) ==
    IF t = <<>> THEN <<>>
    ELSE IF Head(t) \in {"a", "b", "2026", " "} THEN <<Head(t)>> \o DropOthers(Tail(t))
    ELSE DropOthers(Tail(t))

\* _normalize_name
NormalizeName(text) == DropOthers(LowerStr(Strip(CollapseSpaces(text))))

\* Python's  a in b  on strings
IsSubstring(a, b) ==
    \E i \in 0..Len(b) : i + Len(a) <= Len(b) /\ SubSeq(b, i + 1, i + Len(a)) = a

\* [t for t in re.split(r"[^a-z0-9]+", query) if t]
RECURSIVE SplitTokens(_, _)
SplitTokens(q, cur) ==
    IF q = <<>> THEN (IF cur = <<>> THEN <<>> ELSE <<cur>>)
    ELSE IF Head(q) = " "
         THEN (IF cur = <<>> THEN <<>> ELSE <<cur>>) \o SplitTokens(Tail(q), <<>>)
    ELSE SplitTokens(Tail(q), Append(cur, Head(q)))

RECURSIVE TokenPoints(_, _)
TokenPoints(tokens, name) ==
    IF tokens = <<>> THEN 0
    ELSE (IF IsSubstring(Head(tokens), name) THEN 30 ELSE 0) + TokenPoints(Tail(tokens), name)

\* mutant: the three match tiers add up instead of excluding each other
ScoreOfAdditive(event, query, tokens, y) ==
    LET name == NormalizeName(event.name)
    IN (IF name = query THEN 1000 ELSE 0)
       + (IF IsSubstring(query, name) THEN 600 ELSE 0)
       + (IF name # <<>> /\ IsSubstring(name, query) THEN 250 ELSE 0)
       + TokenPoints(tokens, name)
       + (IF IsSubstring(YearString(y), event.name) THEN 40 ELSE 0)

\* the body of the loop over events, up to the test score > 0
ScoreOf(event, query, tokens, y) ==
    LET name == NormalizeName(event.name)
    IN (IF name = query THEN 1000
        ELSE IF IsSubstring(query, name) THEN 600
        ELSE IF name # <<>> /\ IsSubstring(name, query) THEN 250
        ELSE 0)
       + TokenPoints(tokens, name)
       + (IF IsSubstring(YearString(y), event.name) THEN 40 ELSE 0)

RECURSIVE ScoreAll(_, _, _, _)
ScoreAll(events, query, tokens, y) ==
    IF events = <<>> THEN <<>>
    ELSE LET sc == ScoreOf(Head(events), query, tokens, y)
         IN (IF sc > 0 THEN <<[score |-> sc, event |-> Head(events)]>> ELSE <<>>)
            \o ScoreAll(Tail(events), query, tokens, y)

\* s < t on Python strings
RECURSIVE StrLess(_, _)
StrLess(a, b) ==
    IF b = <<>> THEN FALSE
    ELSE IF a = <<>> THEN TRUE
    ELSE IF CharRank(Head(a)) # CharRank(Head(b)) THEN CharRank(Head(a)) < CharRank(Head(b))
    ELSE StrLess(Tail(a), Tail(b))

\* mutant: the score is compared ascending
RowLessAscending(r, t) ==
    LET dr == IF r.event.start = <<>> THEN DateMax ELSE r.event.start[1]
        dt == IF t.event.start = <<>> THEN DateMax ELSE t.event.start[1]
    IN \/ r.score < t.score
       \/ r.score = t.score /\ dr < dt
       \/ r.score = t.score /\ dr = dt /\ StrLess(LowerStr(r.event.name), LowerStr(t.event.name))

\* (-row[0], row[1].start_date or datetime.max, row[1].name.lower())
RowLess(r, t) ==
    LET dr == IF r.event.start = <<>> THEN DateMax ELSE r.event.start[1]
        dt == IF t.event.start = <<>> THEN DateMax ELSE t.event.start[1]
    IN \/ r.score > t.score
       \/ r.score = t.score /\ dr < dt
       \/ r.score = t.score /\ dr = dt /\ StrLess(LowerStr(r.event.name), LowerStr(t.event.name))

RECURSIVE InsertRow(_, _)
InsertRow(r, s) ==
    IF s = <<>> THEN <<r>>
    ELSE IF ~RowLess(Head(s), r) THEN <<r>> \o s
    ELSE <<Head(s)>> \o InsertRow(r, Tail(s))

\* scored.sort(key=...): stable
RECURSIVE SortRows(_)
SortRows(s) == IF s = <<>> THEN <<>> ELSE InsertRow(Head(s), SortRows(Tail(s)))

\* the lists merged.values() can be: one event per URL
RankInputs ==
    UNION {{[i \in 1..n |-> [url |-> i, name |-> nm[i], start |-> st[i]]] :
              nm \in [1..n -> RawNames], st \in [1..n -> Starts]} : n \in 0..MaxEvents}

\* search_events_by_name from events = list(merged.values()) on: the call
\* with its arguments and the merged list at hand
CallRank ==
    /\ UNCHANGED <<idVars, merged, urlVars, filterVars, hintVars, moreVars>>
    /\ pc = "idle"
    /\ op' = "rank"
    /\ pc' = "rank"
    /\ rkQuery' \in RawQueries
    /\ rkLimit' \in Limits
    /\ rkEvents' \in RankInputs
    /\ UNCHANGED <<year, today, candidates, groups, mirrorAsked, todayArg, mirrorPage,
                   primary, sweepPage, sweep, result, outcome, getFailed, compVars, rkScored>>

\* the normalized query, the early return on an empty one, the scoring loop,
\* the sort and the slice
RankReturn ==
    /\ UNCHANGED <<idVars, merged, urlVars, filterVars, hintVars, moreVars>>
    /\ pc = "rank"
    /\ LET query == NormalizeName(rkQuery)
           query_tokens == SplitTokens(query, <<>>)
       IN IF query = <<>>
          THEN /\ result' = Truncate(rkEvents, rkLimit)
               /\ UNCHANGED rkScored
          ELSE LET scored == SortRows(ScoreAll(rkEvents, query, query_tokens, year))
                   top == Truncate(scored, rkLimit)
               IN /\ rkScored' = scored
                  /\ result' = [i \in 1..Len(top) |-> top[i].event]
    /\ outcome' = "returned"
    /\ pc' = "done"
    /\ UNCHANGED <<op, year, today, candidates, groups, mirrorAsked, todayArg, mirrorPage,
                   primary, sweepPage, sweep, getFailed, compVars, rkQuery, rkLimit, rkEvents>>

NextRank ==
    \/ CallRank
    \/ RankReturn

SpecRank == Init /\ [][NextRank]_vars

---------------------------------------------------------------------------
(* Properties of name search *)

RankDone == op = "rank" /\ pc = "done"
QueryGiven == NormalizeName(rkQuery) # <<>>

\* a occurs in b: b is some prefix, then a, then some suffix
Occurs(a, b) == \E x, y \in 0..Len(b) : x <= y /\ SubSeq(b, x + 1, y) = a

\* the tokens of the query: its maximal runs of characters other than the space
TokenSpans(q) ==
    {sp \in (1..Len(q)) \X (1..Len(q)) :
        /\ sp[1] <= sp[2]
        /\ \A k \in sp[1]..sp[2] : q[k] # " "
        /\ (sp[1] = 1 \/ q[sp[1] - 1] = " ")
        /\ (sp[2] = Len(q) \/ q[sp[2] + 1] = " ")}

MatchTier(name, q) ==
    CASE name = q -> 1000
      [] name # q /\ Occurs(q, name) -> 600
      [] name # q /\ ~Occurs(q, name) /\ name # <<>> /\ Occurs(name, q) -> 250
      [] OTHER -> 0

TokenHits(name, q) ==
    Cardinality({sp \in TokenSpans(q) : Occurs(SubSeq(q, sp[1], sp[2]), name)})

YearHit(raw) == \E i \in 1..Len(raw) : raw[i] = "2026" /\ year = 2026

StatedScore(e) ==
    LET name == NormalizeName(e.name)
        q == NormalizeName(rkQuery)
    IN MatchTier(name, q) + 30 * TokenHits(name, q) + (IF YearHit(e.name) THEN 40 ELSE 0)

\* C12: for a non-empty normalized query every candidate's score is one of
\* 1000, 600, 250 or 0 by the match of its normalized name, plus 30 per query
\* token found in the name, plus 40 for the year in the raw name; the scored
\* list holds exactly the candidates whose score is positive, with that score.
ScoreRule ==
    (RankDone /\ QueryGiven) =>
        /\ \A i \in 1..Len(rkScored) :
             /\ rkScored[i].event \in {rkEvents[k] : k \in 1..Len(rkEvents)}
             /\ rkScored[i].score = StatedScore(rkScored[i].event)
             /\ rkScored[i].score > 0
        /\ \A k \in 1..Len(rkEvents) :
             StatedScore(rkEvents[k]) > 0 =>
                 Cardinality({i \in 1..Len(rkScored) : rkScored[i].event = rkEvents[k]}) = 1
        /\ \A k \in 1..Len(rkEvents) :
             StatedScore(rkEvents[k]) = 0 =>
                 \A i \in 1..Len(rkScored) : rkScored[i].event # rkEvents[k]

\* a name containing the query scored 600, 30 for each of two tokens and 40
\* for the year, and a candidate scoring 0 was dropped
ScoreWitness ==
    /\ RankDone
    /\ QueryGiven
    /\ Len(rkEvents) = 2
    /\ Len(rkScored) = 1
    /\ rkScored[1].score = 700

\* a sorts before b as a string, or equals it
LexBefore(a, b) ==
    \E k \in 0..Len(a) :
        /\ k <= Len(b)
        /\ SubSeq(a, 1, k) = SubSeq(b, 1, k)
        /\ \/ k = Len(a)
           \/ k < Len(b) /\ CharRank(a[k + 1]) < CharRank(b[k + 1])

StartKey(e) == IF e.start = <<>> THEN DateMax ELSE e.start[1]

SearchDone == op = "search" /\ pc = "done" /\ outcome = "returned"
Elems(s) == {s[i] : i \in 1..Len(s)}

\* C14: the list search_events_by_name scores is the union by URL of the
\* discovery result and the sweep: one event per URL, every event of the
\* discovery result kept as it is and in its order, and of the sweep exactly
\* the events whose URL the discovery result does not have, after them.
UnionFirstSeen ==
    SearchDone =>
        /\ NoRepeat(merged)
        /\ UrlsOf(merged) = UrlsOf(primary) \cup UrlsOf(sweep)
        /\ SubSeq(merged, 1, Len(primary)) = primary
        /\ \A i \in (Len(primary) + 1)..Len(merged) :
             /\ merged[i] \in Elems(sweep)
             /\ merged[i].url \notin UrlsOf(primary)
        /\ \A i, j \in (Len(primary) + 1)..Len(merged) :
             i < j => \E a, b \in 1..Len(sweep) :
                         a < b /\ sweep[a] = merged[i] /\ sweep[b] = merged[j]

\* one URL came from both sources with different events and the discovery
\* result's was kept; another URL came from the sweep alone
UnionWitness ==
    /\ SearchDone
    /\ Len(merged) = 2
    /\ Len(primary) = 1
    /\ Len(sweep) = 2
    /\ \E i \in 1..2 : sweep[i].url = primary[1].url /\ sweep[i] # primary[1]

---------------------------------------------------------------------------
(* fetch_event_by_url on the event URLs a caller can pass *)

\* the parts of an event URL: host, an optional path prefix, an optional
\* locale, the word event as written, the digits, an optional slug
UrlShapes ==
    [host : Hosts, prefix : BOOLEAN, locale : BOOLEAN, word : EventWords,
     digits : DigitStrings, slug : BOOLEAN]

RenderUrl(sh) ==
    <<sh.host, "/">>
    \o (IF sh.prefix THEN <<"open", "/">> ELSE <<>>)
    \o (IF sh.locale THEN <<"en", "/">> ELSE <<>>)
    \o <<sh.word, "/">> \o sh.digits
    \o (IF sh.slug THEN <<"/", "open">> ELSE <<>>)

\* a trailing slash, a query string, both, or nothing
UrlSuffixes ==
    {<<>>, <<"/">>, <<"?", "q">>, <<"/", "?", "q">>, <<"?", "q", "/">>, <<"/", "/">>}

CallByUrl ==
    /\ UNCHANGED <<idVars, rankVars, merged, filterVars, hintVars, moreVars>>
    /\ pc = "idle"
    /\ op' = "by_url"
    /\ pc' = "url_get"
    /\ urlShape' \in {<<sh>> : sh \in UrlShapes}
    /\ urlSuffix' \in UrlSuffixes
    /\ UNCHANGED <<year, today, candidates, groups, mirrorAsked, todayArg, mirrorPage,
                   primary, sweepPage, sweep, result, outcome, getFailed, compVars, urlFinal>>

\* the GET answers 2xx: the Event built from the final URL
ByUrlResponse ==
    /\ UNCHANGED <<idVars, rankVars, merged, filterVars, hintVars, moreVars>>
    /\ pc = "url_get"
    /\ \E final \in FinalUrls(RenderUrl(urlShape[1]) \o urlSuffix) :
         /\ urlFinal' = final
         /\ result' = <<EventOfPage(final)>>
    /\ outcome' = "returned"
    /\ pc' = "done"
    /\ UNCHANGED <<op, year, today, candidates, groups, mirrorAsked, todayArg, mirrorPage,
                   primary, sweepPage, sweep, getFailed, compVars, urlShape, urlSuffix>>

\* except httpx.HTTPError: return None
ByUrlFailure ==
    /\ UNCHANGED <<idVars, rankVars, merged, filterVars, hintVars, moreVars>>
    /\ pc = "url_get"
    /\ result' = <<>>
    /\ getFailed' = TRUE
    /\ outcome' = "returned"
    /\ pc' = "done"
    /\ UNCHANGED <<op, year, today, candidates, groups, mirrorAsked, todayArg, mirrorPage,
                   primary, sweepPage, sweep, compVars, urlVars>>

NextByUrl ==
    \/ CallByUrl
    \/ ByUrlResponse
    \/ ByUrlFailure

SpecByUrl == Init /\ [][NextByUrl]_vars

---------------------------------------------------------------------------
(* Properties of URLs and identifiers *)

ByUrlLoaded == op = "by_url" /\ pc = "done" /\ result # <<>>
NotRedirected == urlFinal = RenderUrl(urlShape[1]) \o urlSuffix

\* C15: two event URLs that differ only by a query string or trailing slashes
\* have the same canonical form, and the canonical form is its own canonical
\* form.
CanonicalInsensitive ==
    (ByUrlLoaded /\ NotRedirected) =>
        /\ \A sf \in UrlSuffixes :
               CanonicalEventUrl(RenderUrl(urlShape[1]) \o sf) = result[1].url
        /\ CanonicalEventUrl(result[1].url) = result[1].url

\* a URL outside the canonical pattern, passed with a slash and a query
\* string, came out as the URL without them
CanonicalWitness ==
    /\ ByUrlLoaded
    /\ NotRedirected
    /\ urlShape[1].prefix
    /\ urlSuffix = <<"/", "?", "q">>
    /\ result[1].url = RenderUrl(urlShape[1])

\* C16: the identifier extracted from an event URL is the digits of its
\* event/<digits> segment whatever the locale prefix, slug, query string or
\* trailing slash, and the URL built from a digit string gives that digit
\* string back.
IdRoundTrip ==
    (op = "by_url" /\ urlShape[1].word = "event") =>
        /\ EventIdFromUrl(RenderUrl(urlShape[1]) \o urlSuffix) = urlShape[1].digits
        /\ EventIdFromUrl(EventUrlFromId(urlShape[1].digits)) = urlShape[1].digits
        /\ (ByUrlLoaded /\ NotRedirected) => result[1].id = urlShape[1].digits

\* an Event was built from a URL with locale, slug and query string, and its
\* id is the two-digit string of the event segment
IdRoundTripWitness ==
    /\ ByUrlLoaded
    /\ NotRedirected
    /\ urlShape[1].word = "event"
    /\ urlShape[1].locale
    /\ urlShape[1].slug
    /\ urlSuffix = <<"?", "q">>
    /\ Len(urlShape[1].digits) = 2
    /\ result[1].id = urlShape[1].digits

\* C17 as stated: the id of every Event fetch_event_by_url builds is a digit
\* string, never the URL itself.
EventIdIsDigits ==
    ByUrlLoaded => \A i \in 1..Len(result[1].id) : result[1].id[i] \in Digits

---------------------------------------------------------------------------
(* The affiliate filter of the extraction strategies.  A text is a sequence  *)
(* of words; "gb" has fewer than three characters, the other words have more. *)

MaxWords == 2
MaxKeywords == 2

Words == {"Atos", "manila", "gb"}
Texts == UNION {[1..n -> Words] : n \in 0..MaxWords}
Keywords == {<<>>, <<"Atos">>, <<"gb">>, <<"gb", "manila">>, <<"atos", "manila">>}
KeywordLists == UNION {[1..n -> Keywords] : n \in 0..MaxKeywords}
FilterKinds == {"rows", "pairs", "profiles", "tables", "scripts", "windows", "blocks"}

LowerWord(w) == IF w = "Atos" THEN "atos" ELSE w
LowerText(t) == [i \in 1..Len(t) |-> LowerWord(t[i])]

\* len(t) >= 3
IsLongToken(w) == w # "gb"

\* [t for t in re.split(r"[^a-z0-9]+", kw) if len(t) >= 3]
RECURSIVE LongTokens(_)
LongTokens(kw) ==
    IF kw = <<>> THEN <<>>
    ELSE (IF IsLongToken(Head(kw)) THEN <<Head(kw)>> ELSE <<>>) \o LongTokens(Tail(kw))

\* sum(1 for token in tokens if token in hay)
RECURSIVE Hits(_, _)
Hits(tokens, hay) ==
    IF tokens = <<>> THEN 0
    ELSE (IF IsSubstring(<<Head(tokens)>>, hay) THEN 1 ELSE 0) + Hits(Tail(tokens), hay)

\* the loop over the keywords of _text_matches_affiliate
RECURSIVE KeywordLoop(_, _)
KeywordLoop(hay, keywords) ==
    IF keywords = <<>> THEN FALSE
    ELSE LET kw == LowerText(Head(keywords))
             tokens == LongTokens(kw)
             hits == Hits(tokens, hay)
         IN IF kw = <<>> THEN KeywordLoop(hay, Tail(keywords))
            ELSE IF IsSubstring(kw, hay) THEN TRUE
            ELSE IF tokens = <<>> THEN KeywordLoop(hay, Tail(keywords))
            ELSE IF hits >= 2 \/ (hits >= 1 /\ Len(tokens) = 1) THEN TRUE
            ELSE KeywordLoop(hay, Tail(keywords))

\* mutant: one token of a keyword is enough, however many tokens it has
TextMatchesAnyToken(text, keywords) ==
    LET hay == LowerText(text)
    IN /\ hay # <<>>
       /\ \/ keywords = <<>>
          \/ \E i \in 1..Len(keywords) :
                LET kw == LowerText(keywords[i])
                IN kw # <<>> /\ (IsSubstring(kw, hay) \/ Hits(LongTokens(kw), hay) >= 1)

\* _text_matches_affiliate
TextMatchesAffiliate(text, keywords) ==
    LET hay == LowerText(text)
    IN IF hay = <<>> THEN FALSE
       ELSE IF keywords = <<>> THEN TRUE
       ELSE KeywordLoop(hay, keywords)

\* _extract_affiliate_from_text on a one-line text: the first keyword found
\* in it, else the line itself
RECURSIVE ExtractAffiliate(_, _)
ExtractAffiliate(text, keywords) ==
    IF keywords = <<>> THEN text
    ELSE IF IsSubstring(LowerText(Head(keywords)), LowerText(text)) THEN Head(keywords)
    ELSE ExtractAffiliate(text, Tail(keywords))

\* _parse_competitor_scripts: the tests on the script, on the object and on
\* the affiliate, for a script that holds the one object
ScriptPasses(obj, field, keywords) ==
    LET lowered == [i \in 1..Len(keywords) |-> LowerText(keywords[i])]
        low == LowerText(obj)
        a1 == IF field = <<>> /\ lowered # <<>> THEN ExtractAffiliate(obj, keywords) ELSE field
        affiliate == IF a1 = <<>> THEN <<"Unknown">> ELSE a1
    IN /\ lowered = <<>> \/ \E i \in 1..Len(lowered) : TextMatchesAffiliate(low, <<lowered[i]>>)
       /\ lowered = <<>> \/ TextMatchesAffiliate(low, lowered)
       /\ lowered = <<>> \/ TextMatchesAffiliate(affiliate, keywords)

\* _parse_competitor_script_windows: a window is cut around each place where
\* a non-empty keyword is found in the script
WindowPasses(text, keywords) ==
    /\ keywords # <<>>
    /\ \E i \in 1..Len(keywords) :
         LET kw == LowerText(keywords[i])
         IN kw # <<>> /\ IsSubstring(kw, LowerText(text))

\* whether the strategy lets the candidate through to its seen-key test
PassesFilter(kind, text, field, keywords) ==
    CASE kind = "scripts" -> ScriptPasses(text, field, keywords)
      [] kind = "windows" -> WindowPasses(text, keywords)
      [] OTHER -> ~(keywords # <<>> /\ ~TextMatchesAffiliate(text, keywords))

\* one candidate of one strategy reaches the strategy's affiliate test
FilterCandidate ==
    /\ UNCHANGED <<idVars, rankVars, merged, urlVars, hintVars, moreVars>>
    /\ pc = "idle"
    /\ op' = "filter"
    /\ pc' = "done"
    /\ \E kind \in FilterKinds, kws \in KeywordLists, text \in Texts \ {<<>>}, field \in Texts :
         /\ kind # "scripts" => field = <<>>
         /\ flKind' = kind
         /\ flKeywords' = kws
         /\ flText' = text
         /\ flField' = field
         /\ flKept' = PassesFilter(kind, text, field, kws)
    /\ UNCHANGED <<year, today, candidates, groups, mirrorAsked, todayArg, mirrorPage,
                   primary, sweepPage, sweep, result, outcome, getFailed, compVars>>

NextFilter == FilterCandidate

SpecFilter == Init /\ [][NextFilter]_vars

---------------------------------------------------------------------------
(* Properties of the affiliate filter *)

WordIn(w, text) == \E i \in 1..Len(text) : LowerWord(text[i]) = w

\* the rule as stated: the keyword is found whole, or two of its words are
\* found, or it is one word and that word is found
StatedMatch(text, keyword) ==
    LET k == LowerText(keyword)
    IN /\ k # <<>>
       /\ \/ Occurs(k, LowerText(text))
          \/ Cardinality({i \in 1..Len(k) : WordIn(k[i], text)}) >= 2
          \/ Len(k) = 1 /\ WordIn(k[1], text)

\* the rule with the words of fewer than three characters left out of the count
LongWordMatch(text, keyword) ==
    LET k == LowerText(keyword)
        long == {i \in 1..Len(k) : k[i] # "gb"}
        found == {i \in long : WordIn(k[i], text)}
    IN /\ k # <<>>
       /\ \/ Occurs(k, LowerText(text))
          \/ Cardinality(found) >= 2
          \/ Cardinality(long) = 1 /\ found # {}

\* C18 as stated: with keywords, a candidate is let through only if its text
\* matches a keyword whole, by two of its words, or by its only word; without
\* keywords every candidate of a filtering strategy is let through.
FilterAsStated ==
    op = "filter" =>
        /\ (flKeywords # <<>> /\ flKept) =>
               \E i \in 1..Len(flKeywords) : StatedMatch(flText, flKeywords[i])
        /\ (flKeywords = <<>> /\ flKind # "windows") => flKept

\* C18 as amended: the words of a keyword that count are those of three
\* characters or more: a candidate is let through only if a keyword is found
\* whole in its text, or two such words of it are found, or it has exactly
\* one such word and that word is found; the strategies other than the two
\* script strategies let through exactly these; without keywords every
\* candidate is let through, except that the script-window strategy yields
\* none.
FilterRule ==
    op = "filter" =>
        /\ (flKeywords # <<>> /\ flKept) =>
               \E i \in 1..Len(flKeywords) : LongWordMatch(flText, flKeywords[i])
        /\ (flKeywords # <<>> /\ flKind \notin {"scripts", "windows"}) =>
               (flKept <=> \E i \in 1..Len(flKeywords) : LongWordMatch(flText, flKeywords[i]))
        /\ flKeywords = <<>> => (flKept <=> flKind # "windows")

\* a text with the one long word of a two-word keyword was let through
FilterWitness ==
    /\ op = "filter"
    /\ flKind = "rows"
    /\ flKeywords = << <<"gb", "manila">> >>
    /\ flText = <<"manila", "Atos">>
    /\ flKept

---------------------------------------------------------------------------
(* detect_affiliates_for_event.  An academy string is a sequence of words; *)
(* " " is one white-space character, "GB" has two characters, every other  *)
(* word has three or more.  "Ranking" is a word the label test takes for a *)
(* count, "Adult/Male" one it takes for a division.                        *)

MaxRows == 3
HintLimit == 12

LabelWords ==
    {" ", "Atos", "ATOS", "Bmac", "TBD", "Unknown", "team match", "GB", "Ranking", "Adult/Male"}

\* row.academy of the unfiltered rows; <<>> is None or ""
HintAcademies ==
    { <<>>, <<" ">>, <<"Atos">>, <<"ATOS">>, <<" ", "Atos">>, <<"Bmac">>, <<"TBD">>,
      <<"Unknown">>, <<"team match">>, <<"GB">>, <<"Ranking">>, <<"Adult/Male">> }

AcademyLists == UNION {[1..n -> HintAcademies] : n \in 0..MaxRows}
AffiliateLimits == {0, 1, 2, HintLimit}

\* str.lower() of a word
LowerLabelWord(w) ==
    CASE w = "Atos" -> "atos"
      [] w = "ATOS" -> "atos"
      [] w = "Bmac" -> "bmac"
      [] w = "TBD" -> "tbd"
      [] w = "Unknown" -> "unknown"
      [] w = "GB" -> "gb"
      [] w = "Ranking" -> "ranking"
      [] w = "Adult/Male" -> "adult/male"
      [] OTHER -> w

LowerLabel(t) == [i \in 1..Len(t) |-> LowerLabelWord(t[i])]

\* len() of a word
WordLen(w) ==
    CASE w = " " -> 1
      [] w \in {"GB", "gb"} -> 2
      [] w \in {"TBD", "tbd"} -> 3
      [] w \in {"Atos", "ATOS", "atos", "Bmac", "bmac"} -> 4
      [] w \in {"Unknown", "unknown", "Ranking", "ranking"} -> 7
      [] OTHER -> 10

RECURSIVE LabelLen(_)
LabelLen(t) == IF t = <<>> THEN 0 ELSE WordLen(Head(t)) + LabelLen(Tail(t))

\* {"tbd", "team match", "unknown"}
Sentinels == { <<"tbd">>, <<"team match">>, <<"unknown">> }

\* mutant: the sentinel test compares the label as written
IsSentinelExact(academy) == academy \in Sentinels

\* low in {"tbd", "team match", "unknown"}
IsSentinel(academy) == LowerLabel(academy) \in Sentinels

\* _is_likely_affiliate_label; no word of the model holds a time of day
IsLikelyAffiliateLabel(text) ==
    LET t == Strip(CollapseSpaces(text))
        lower == LowerLabel(t)
    IN /\ ~(LabelLen(t) < 3 \/ LabelLen(t) > 120)
       /\ ~(\E i \in 1..Len(t) : t[i] = "Adult/Male" /\ lower[i] = "adult/male")
       /\ ~(\E i \in 1..Len(lower) : lower[i] = "ranking")

\* counts[academy] = counts.get(academy, 0) + 1, the dictionary in insertion order
BumpCount(counts, academy) ==
    IF \E i \in 1..Len(counts) : counts[i].name = academy
    THEN [i \in 1..Len(counts) |->
            IF counts[i].name = academy THEN [counts[i] EXCEPT !.n = @ + 1] ELSE counts[i]]
    ELSE Append(counts, [name |-> academy, n |-> 1])

\* the loop over rows
RECURSIVE CountLabels(_, _)
CountLabels(rows, counts) ==
    IF rows = <<>> THEN counts
    ELSE LET academy == Strip(Head(rows))
         IN IF \/ academy = <<>>
               \/ IsSentinel(academy)
               \/ ~IsLikelyAffiliateLabel(academy)
            THEN CountLabels(Tail(rows), counts)
            ELSE CountLabels(Tail(rows), BumpCount(counts, academy))

\* the order of Python strings, on lower-cased labels
WordOrder ==
    <<" ", "adult/male", "atos", "bmac", "gb", "ranking", "tbd", "team match", "unknown">>
WordRank(w) == CHOOSE i \in 1..Len(WordOrder) : WordOrder[i] = w

RECURSIVE LabelLess(_, _)
LabelLess(a, b) ==
    IF b = <<>> THEN FALSE
    ELSE IF a = <<>> THEN TRUE
    ELSE IF WordRank(Head(a)) # WordRank(Head(b)) THEN WordRank(Head(a)) < WordRank(Head(b))
    ELSE LabelLess(Tail(a), Tail(b))

\* key=lambda kv: (-kv[1], kv[0].lower())
KvLess(x, y) ==
    \/ x.n > y.n
    \/ x.n = y.n /\ LabelLess(LowerLabel(x.name), LowerLabel(y.name))

RECURSIVE InsertKv(_, _)
InsertKv(x, s) ==
    IF s = <<>> THEN <<x>>
    ELSE IF ~KvLess(Head(s), x) THEN <<x>> \o s
    ELSE <<Head(s)>> \o InsertKv(x, Tail(s))

\* sorted(counts.items(), key=...): stable
RECURSIVE SortKv(_)
SortKv(s) == IF s = <<>> THEN <<>> ELSE InsertKv(Head(s), SortKv(Tail(s)))

\* ordered[:limit], limit >= 0
FirstN(s, limit) == SubSeq(s, 1, IF limit < Len(s) THEN limit ELSE Len(s))

\* detect_affiliates_for_event on the academies of the unfiltered rows
DetectAffiliates(rows, limit) ==
    LET ordered == SortKv(CountLabels(rows, <<>>))
        top == FirstN(ordered, limit)
    IN [i \in 1..Len(top) |-> top[i].name]

\* detect_affiliates_for_event(event, limit): the unfiltered extraction answers
\* rows, the call returns
CallDetectAffiliates ==
    /\ UNCHANGED <<idVars, rankVars, merged, urlVars, filterVars, moreVars>>
    /\ pc = "idle"
    /\ op' = "affiliates"
    /\ pc' = "done"
    /\ \E rows \in AcademyLists, limit \in AffiliateLimits :
         /\ afRows' = rows
         /\ afLimit' = limit
         /\ afLabels' = DetectAffiliates(rows, limit)
    /\ UNCHANGED <<scCompetitors, scCalls, scText, scChunks, scSent>>
    /\ UNCHANGED <<year, today, candidates, groups, mirrorAsked, todayArg, mirrorPage,
                   primary, sweepPage, sweep, result, outcome, getFailed, compVars>>

NextAffiliates == CallDetectAffiliates

SpecAffiliates == Init /\ [][NextAffiliates]_vars

---------------------------------------------------------------------------
(* Properties of detect_affiliates_for_event                               *)

AffiliatesDone == op = "affiliates" /\ pc = "done"

\* the number of unfiltered records carrying the label
Carried(label) == Cardinality({i \in 1..Len(afRows) : Strip(afRows[i]) = label})

ObservedLabels == {Strip(afRows[i]) : i \in 1..Len(afRows)}
ReturnedLabels == {afLabels[i] : i \in 1..Len(afLabels)}

\* case-insensitive alphabetical order, equal allowed
AlphaNotAfter(a, b) == ~LabelLess(LowerLabel(b), LowerLabel(a))

\* at most limit pairwise distinct labels, no sentinel and no empty one, by
\* count descending, ties alphabetical without regard to case
ReturnedShape ==
    /\ Len(afLabels) <= afLimit
    /\ \A i, j \in 1..Len(afLabels) : i # j => afLabels[i] # afLabels[j]
    /\ \A i \in 1..Len(afLabels) :
         /\ afLabels[i] # <<>>
         /\ LowerLabel(afLabels[i]) \notin Sentinels
    /\ \A i, j \in 1..Len(afLabels) :
         i < j => \/ Carried(afLabels[i]) > Carried(afLabels[j])
                  \/ /\ Carried(afLabels[i]) = Carried(afLabels[j])
                     /\ AlphaNotAfter(afLabels[i], afLabels[j])

\* C20 as stated: detect_affiliates_for_event returns at most limit pairwise
\* distinct labels, none a sentinel or empty, ordered by non-increasing number
\* of records carrying the label, ties in case-insensitive alphabetical order,
\* and no observed label left out of the result is carried by strictly more
\* records than a label in it.
AffiliatesAsStated ==
    AffiliatesDone =>
        /\ ReturnedShape
        /\ \A out \in ObservedLabels \ ReturnedLabels, in \in ReturnedLabels :
             (out # <<>> /\ LowerLabel(out) \notin Sentinels) => Carried(out) <= Carried(in)

\* the labels the count keeps: not empty, no sentinel, and passing the label test
Qualifies(label) ==
    /\ label # <<>>
    /\ LowerLabel(label) \notin Sentinels
    /\ LabelLen(label) >= 3
    /\ \A i \in 1..Len(label) : LowerLabelWord(label[i]) \notin {"ranking", "adult/male"}

\* C20: detect_affiliates_for_event returns the first limit of the qualifying
\* labels (not empty, no sentinel, passing the label test): pairwise distinct,
\* ordered by non-increasing number of records carrying the label, ties in
\* case-insensitive alphabetical order; no qualifying label left out is carried
\* by strictly more records than a label in the result, and none is left out
\* while the result is shorter than limit.
AffiliateRule ==
    AffiliatesDone =>
        /\ ReturnedShape
        /\ ReturnedLabels \subseteq {l \in ObservedLabels : Qualifies(l)}
        /\ \A out \in ObservedLabels \ ReturnedLabels, in \in ReturnedLabels :
             Qualifies(out) => Carried(out) <= Carried(in)
        /\ Len(afLabels) < afLimit => \A l \in ObservedLabels : Qualifies(l) => l \in ReturnedLabels

AffiliateWitness ==
    /\ AffiliatesDone
    /\ afRows = << <<"TBD">>, <<"Bmac">>, <<" ", "Atos">> >>
    /\ afLimit = 1
    /\ afLabels = << <<"Atos">> >>

---------------------------------------------------------------------------
(* _send_event_schedule.  A competitor name is a sequence of words and     *)
(* single spaces; "Bo" has two characters, "Novice" is one of the blocked  *)
(* words of the person-name test.  The length of the text is not modelled: *)
(* _split_message cuts it into one chunk or more.                          *)

MaxChunks == 2
PeopleLimit == 15

\* the rows an extraction of the event's pages can return
ScheduleRows ==
    { [name |-> <<"Ann", " ", "Lee">>, academy |-> <<"Atos">>, division |-> "Adult"],
      [name |-> <<"ANN", " ", "LEE">>, academy |-> <<"TBD">>, division |-> ""],
      [name |-> <<"Bo">>, academy |-> <<"Atos">>, division |-> "Adult"],
      [name |-> <<"Novice", " ", "Gi">>, academy |-> <<" ", "Bmac">>, division |-> ""] }

ScheduleRowLists == UNION {[1..n -> ScheduleRows] : n \in 0..MaxRows}

\* what Telegram answers to send_message: delivered, BadRequest, or another
\* TelegramError (network failure, time-out)
SendAnswers == {"ok", "bad_request", "error"}

\* str.lower() of a word of a name
LowerNameWord(w) ==
    CASE w \in {"Ann", "ANN"} -> "ann"
      [] w \in {"Lee", "LEE"} -> "lee"
      [] w = "Bo" -> "bo"
      [] w = "Novice" -> "novice"
      [] w = "Gi" -> "gi"
      [] OTHER -> w

LowerName(n) == [i \in 1..Len(n) |-> LowerNameWord(n[i])]

\* len() of a word of a name
NameWordLen(w) ==
    CASE w = " " -> 1
      [] w \in {"Bo", "Gi"} -> 2
      [] w = "Novice" -> 6
      [] OTHER -> 3

RECURSIVE NameLen(_)
NameLen(n) == IF n = <<>> THEN 0 ELSE NameWordLen(Head(n)) + NameLen(Tail(n))

\* _is_plausible_person_name: five characters or more, no blocked word, two
\* to five words separated by white space
IsPlausiblePersonName(name) ==
    LET n == Strip(name)
        lower == LowerName(n)
    IN /\ ~(NameLen(n) < 5)
       /\ ~(\E i \in 1..Len(lower) : lower[i] = "novice")
       /\ Len(n) \in {3, 5, 7, 9}
       /\ \A i \in 1..Len(n) : (n[i] = " ") <=> (i % 2 = 0)

\* the loop of detect_people_for_event
RECURSIVE PeopleLoop(_, _, _, _)
PeopleLoop(rows, out, seenKeys, limit) ==
    IF rows = <<>> THEN out
    ELSE LET name == Strip(Head(rows).name)
             key == LowerName(name)
             division == IF Head(rows).division = "" THEN "TBD" ELSE Head(rows).division
         IN IF ~IsPlausiblePersonName(name) \/ key \in seenKeys
            THEN PeopleLoop(Tail(rows), out, seenKeys, limit)
            ELSE IF Len(out) + 1 >= limit
                 THEN Append(out, <<name, division>>)
                 ELSE PeopleLoop(Tail(rows), Append(out, <<name, division>>),
                                 seenKeys \cup {key}, limit)

\* detect_people_for_event on the unfiltered rows
DetectPeople(rows, limit) == PeopleLoop(rows, <<>>, {}, limit)

\* mutant: hint detection runs whatever the filtered extraction returned
NeedsHintsAlways(rows) == TRUE

\* if not competitors
NeedsHints(rows) == rows = <<>>

\* format_competitors: the message for no rows, or the listing
FormatSection(rows) ==
    IF rows = <<>> THEN [section |-> "none_found", lines |-> <<>>]
    ELSE [section |-> "listing", lines |-> <<>>]

\* the sections appended for the hints that are not empty
HintSections(affiliateHints, peopleHints) ==
    (IF affiliateHints # <<>>
     THEN <<[section |-> "affiliates", lines |-> affiliateHints]>> ELSE <<>>)
    \o (IF peopleHints # <<>>
        THEN <<[section |-> "people", lines |-> peopleHints]>> ELSE <<>>)

\* the chunks of _safe_send_message that are through: sent as HTML, or as
\* plain text after a BadRequest
ChunksThrough == Cardinality({i \in 1..Len(scSent) : scSent[i].answer = "ok"})

scFrame == <<year, today, candidates, groups, mirrorAsked, todayArg, mirrorPage,
             primary, sweepPage, sweep, result, getFailed, compVars>>

\* a handler calls _send_event_schedule with a loaded event
CallSendSchedule ==
    /\ UNCHANGED <<idVars, rankVars, merged, urlVars, filterVars, moreVars>>
    /\ pc = "idle"
    /\ op' = "schedule"
    /\ pc' = "sc_extract"
    /\ UNCHANGED <<hintVars, outcome, scFrame>>

\* fetch_competitors_for_event with the team's keywords returns, and
\* format_competitors builds the text
ScheduleExtract ==
    /\ UNCHANGED <<idVars, rankVars, merged, urlVars, filterVars, moreVars>>
    /\ op = "schedule" /\ pc = "sc_extract"
    /\ \E rows \in ScheduleRowLists :
         /\ scCompetitors' = rows
         /\ scText' = <<FormatSection(rows)>>
         /\ pc' = IF NeedsHints(rows) THEN "sc_affiliates" ELSE "sc_split"
    /\ scCalls' = Append(scCalls, "competitors")
    /\ UNCHANGED <<op, afRows, afLimit, afLabels, scChunks, scSent, outcome, scFrame>>

\* detect_affiliates_for_event(event, limit=12)
ScheduleAffiliates ==
    /\ UNCHANGED <<idVars, rankVars, merged, urlVars, filterVars, moreVars>>
    /\ op = "schedule" /\ pc = "sc_affiliates"
    /\ \E rows \in ScheduleRowLists :
         /\ afRows' = [i \in 1..Len(rows) |-> rows[i].academy]
         /\ afLimit' = HintLimit
         /\ afLabels' = DetectAffiliates([i \in 1..Len(rows) |-> rows[i].academy], HintLimit)
    /\ scCalls' = Append(scCalls, "affiliates")
    /\ pc' = "sc_people"
    /\ UNCHANGED <<op, scCompetitors, scText, scChunks, scSent, outcome, scFrame>>

\* detect_people_for_event(event, limit=15), then the hint sections
SchedulePeople ==
    /\ UNCHANGED <<idVars, rankVars, merged, urlVars, filterVars, moreVars>>
    /\ op = "schedule" /\ pc = "sc_people"
    /\ \E rows \in ScheduleRowLists :
         scText' = scText \o HintSections(afLabels, DetectPeople(rows, PeopleLimit))
    /\ scCalls' = Append(scCalls, "people")
    /\ pc' = "sc_split"
    /\ UNCHANGED <<op, afRows, afLimit, afLabels, scCompetitors, scChunks, scSent, outcome, scFrame>>

\* _safe_send_message: chunks = self._split_message(text, limit=3500)
ScheduleSplit ==
    /\ UNCHANGED <<idVars, rankVars, merged, urlVars, filterVars, moreVars>>
    /\ op = "schedule" /\ pc = "sc_split"
    /\ scChunks' \in 1..MaxChunks
    /\ pc' = "sc_send"
    /\ UNCHANGED <<op, afRows, afLimit, afLabels, scCompetitors, scCalls, scText, scSent,
                   outcome, scFrame>>

\* where the loop over chunks stands once a chunk is through
AfterChunk(sent) ==
    IF Cardinality({i \in 1..Len(sent) : sent[i].answer = "ok"}) = scChunks
    THEN "done" ELSE "sc_send"

\* send_message(chunk, parse_mode=HTML) inside the try
ScheduleSendChunk ==
    /\ UNCHANGED <<idVars, rankVars, merged, urlVars, filterVars, moreVars>>
    /\ op = "schedule" /\ pc = "sc_send"
    /\ \E answer \in SendAnswers :
         LET sent == Append(scSent, [mode |-> "html", answer |-> answer])
         IN /\ scSent' = sent
            /\ pc' = CASE answer = "ok" -> AfterChunk(sent)
                       [] answer = "bad_request" -> "sc_plain"
                       [] OTHER -> "done"
            /\ outcome' = CASE answer = "error" -> "raised"
                            [] answer = "ok" /\ AfterChunk(sent) = "done" -> "returned"
                            [] OTHER -> outcome
    /\ UNCHANGED <<op, afRows, afLimit, afLabels, scCompetitors, scCalls, scText, scChunks,
                   scFrame>>

\* except BadRequest: send_message(plain_chunk) with no parse mode, outside any try
ScheduleSendPlain ==
    /\ UNCHANGED <<idVars, rankVars, merged, urlVars, filterVars, moreVars>>
    /\ op = "schedule" /\ pc = "sc_plain"
    /\ \E answer \in SendAnswers :
         LET sent == Append(scSent, [mode |-> "plain", answer |-> answer])
         IN /\ scSent' = sent
            /\ pc' = IF answer = "ok" THEN AfterChunk(sent) ELSE "done"
            /\ outcome' = CASE answer # "ok" -> "raised"
                            [] AfterChunk(sent) = "done" -> "returned"
                            [] OTHER -> outcome
    /\ UNCHANGED <<op, afRows, afLimit, afLabels, scCompetitors, scCalls, scText, scChunks,
                   scFrame>>

NextSchedule ==
    \/ CallSendSchedule
    \/ ScheduleExtract
    \/ ScheduleAffiliates
    \/ SchedulePeople
    \/ ScheduleSplit
    \/ ScheduleSendChunk
    \/ ScheduleSendPlain

SpecSchedule == Init /\ [][NextSchedule]_vars

\* the event loop runs the coroutine on: every awaited call comes back
SpecScheduleFair == SpecSchedule /\ WF_vars(NextSchedule)

---------------------------------------------------------------------------
(* Properties of _send_event_schedule                                      *)

HintCalls == {i \in 1..Len(scCalls) : scCalls[i] \in {"affiliates", "people"}}

\* the handler is past the hint decision and its calls
ReadyToSend == op = "schedule" /\ pc \in {"sc_split", "sc_send", "sc_plain", "done"}

ScheduleOrder ==
    /\ HintCalls # {} => scCompetitors = <<>> /\ scCalls[1] = "competitors"
    /\ ReadyToSend =>
         scCalls = IF scCompetitors = <<>>
                   THEN <<"competitors", "affiliates", "people">>
                   ELSE <<"competitors">>
    /\ scSent # <<>> => ReadyToSend /\ scSent[1].mode = "html"
    /\ (op = "schedule" /\ outcome = "raised") =>
         /\ scSent # <<>>
         /\ scSent[Len(scSent)].answer # "ok"
         /\ scSent[Len(scSent)].answer = "bad_request" => scSent[Len(scSent)].mode = "plain"
    /\ (op = "schedule" /\ outcome = "returned") => ChunksThrough = scChunks
    /\ (op = "schedule" /\ pc = "done") => scSent # <<>> /\ outcome # "pending"

\* C19: when an event's schedule is sent, the two hint detections run, after
\* the filtered extraction, exactly when that extraction returned no
\* competitors; nothing raises before the reply is handed to Telegram, whether
\* the filtered result is empty or not; and the reply is always sent
\* afterwards: send_message is called once the calls are over, and the handler
\* returns with every chunk delivered unless Telegram itself refuses one.
ScheduleFlow ==
    /\ []ScheduleOrder
    /\ (op = "schedule") ~> (scSent # <<>>)

ScheduleWitness ==
    /\ op = "schedule" /\ pc = "done"
    /\ outcome = "returned"
    /\ scCompetitors = <<>>
    /\ Len(scText) = 3
    /\ \E i \in 1..Len(scSent) : scSent[i].mode = "plain"

---------------------------------------------------------------------------
(* format_competitors and build_bracket_lines.  The text is the sequence   *)
(* of its lines; a line is a record of the values written into it.         *)

FmtNames == {"Ann Lee", "Bo & Cy"}
FmtOpponents == {"TBD", "Jane <J>"}
FmtDivisions == {"", "Adult"}
FmtAcademies == {"", "Alpha"}

FmtRows ==
    [competitor_name : FmtNames, academy : FmtAcademies, division : FmtDivisions,
     opponent : FmtOpponents, match_time : {"TBD"}, mat : {"TBD"}]

FmtRowLists == UNION {[1..n -> FmtRows] : n \in 0..MaxRows}

\* html.escape on the strings of the model
Escape(x) ==
    CASE x = "Bo & Cy" -> "Bo &amp; Cy"
      [] x = "Jane <J>" -> "Jane &lt;J&gt;"
      [] OTHER -> x

\* sorted() on the names and on the division keys of the model
FmtNameOrder == <<"Ann Lee", "Bo & Cy">>
FmtDivisionOrder == <<"Adult", "Unspecified division">>

\* the elements of order that are keys of the dictionary, in order
RECURSIVE SortedKeys(_, _)
SortedKeys(order, keys) ==
    IF order = <<>> THEN <<>>
    ELSE (IF Head(order) \in keys THEN <<Head(order)>> ELSE <<>>)
         \o SortedKeys(Tail(order), keys)

\* by_name[competitor_name]: the rows of that name, in input order
RowsNamed(rows, name) == SelectSeq(rows, LAMBDA r : r.competitor_name = name)

\* the "- Division: ... | Time: ... | Mat: ... | Opponent: ..." line of a row
ScheduleLine(row) ==
    [kind |-> "row", name |-> "", academy |-> "",
     division |-> Escape(OrElse(row.division, "TBD")), opponent |-> Escape(row.opponent),
     match_time |-> Escape(row.match_time), mat |-> Escape(row.mat)]

\* the "<b>name</b> (academy)" line and the lines of the competitor's rows
EntryLines(rows, name) ==
    LET mine == RowsNamed(rows, name)
    IN << [kind |-> "entry", name |-> Escape(name),
           academy |-> Escape(OrElse(mine[1].academy, "TBD")),
           division |-> "", opponent |-> "", match_time |-> "", mat |-> ""] >>
       \o [i \in 1..Len(mine) |-> ScheduleLine(mine[i])]

RECURSIVE AllEntries(_, _)
AllEntries(rows, names) ==
    IF names = <<>> THEN <<>>
    ELSE EntryLines(rows, Head(names)) \o AllEntries(rows, Tail(names))

\* mutant: the bracket line carries the strings unescaped
BracketLineRaw(row) ==
    [kind |-> "bracket", name |-> row.competitor_name, academy |-> "",
     division |-> "", opponent |-> row.opponent,
     match_time |-> row.match_time, mat |-> row.mat]

\* the "name vs opponent (Mat mat, time)" line of a row
BracketLine(row) ==
    [kind |-> "bracket", name |-> Escape(row.competitor_name), academy |-> "",
     division |-> "", opponent |-> Escape(row.opponent),
     match_time |-> Escape(row.match_time), mat |-> Escape(row.mat)]

\* row.division or "Unspecified division"
DivisionKey(row) == OrElse(row.division, "Unspecified division")

\* sorted(by_division[division], key=lambda x: x.competitor_name): stable
RECURSIVE DivisionRows(_, _, _)
DivisionRows(rows, division, names) ==
    IF names = <<>> THEN <<>>
    ELSE SelectSeq(rows, LAMBDA r : DivisionKey(r) = division /\ r.competitor_name = Head(names))
         \o DivisionRows(rows, division, Tail(names))

RECURSIVE BracketsOf(_, _)
BracketsOf(rows, divisions) ==
    IF divisions = <<>> THEN <<>>
    ELSE LET mine == DivisionRows(rows, Head(divisions), FmtNameOrder)
         IN << [kind |-> "division", name |-> "", academy |-> "",
                division |-> Escape(Head(divisions)), opponent |-> "",
                match_time |-> "", mat |-> ""] >>
            \o [i \in 1..Len(mine) |-> BracketLine(mine[i])]
            \o BracketsOf(rows, Tail(divisions))

\* build_bracket_lines
BuildBracketLines(rows) ==
    BracketsOf(rows, SortedKeys(FmtDivisionOrder, {DivisionKey(rows[i]) : i \in 1..Len(rows)}))

FixedLine(kind) ==
    [kind |-> kind, name |-> "", academy |-> "", division |-> "", opponent |-> "",
     match_time |-> "", mat |-> ""]

\* format_competitors
FormatCompetitors(rows) ==
    IF rows = <<>> THEN <<FixedLine("title"), FixedLine("none_found")>>
    ELSE <<FixedLine("title"), FixedLine("filter"), FixedLine("heading")>>
         \o AllEntries(rows, SortedKeys(FmtNameOrder,
                                        {rows[i].competitor_name : i \in 1..Len(rows)}))
         \o <<FixedLine("bracket_title")>>
         \o BuildBracketLines(rows)

\* format_competitors(event, competitor_rows, affiliate_keywords)
CallFormatCompetitors ==
    /\ UNCHANGED fmtOthers
    /\ pc = "idle"
    /\ op' = "format"
    /\ pc' = "done"
    /\ \E rows \in FmtRowLists :
         /\ fmRows' = rows
         /\ fmText' = FormatCompetitors(rows)
    /\ UNCHANGED <<outcome, scFrame>>

NextFormat == CallFormatCompetitors

SpecFormat == Init /\ [][NextFormat]_vars

---------------------------------------------------------------------------
(* Properties of format_competitors                                        *)

FormatDone == op = "format" /\ pc = "done"

LinesOfKind(kind) == {k \in 1..Len(fmText) : fmText[k].kind = kind}

\* the lines of kind "row" that follow line k without another kind between
RowsAfter(k) ==
    {j \in (k + 1)..Len(fmText) : \A m \in (k + 1)..j : fmText[m].kind = "row"}

\* C21: for a non-empty list of rows the text has a quick bracket view
\* section, after it one bracket line "name vs opponent" (escaped) for every
\* input row, and before it one entry per distinct competitor name, followed
\* by one line for each of that competitor's rows in input order.
ListingComplete ==
    (FormatDone /\ fmRows # <<>>) =>
        /\ Cardinality(LinesOfKind("bracket_title")) = 1
        /\ \E f \in [1..Len(fmRows) -> LinesOfKind("bracket")] :
             /\ \A i, j \in 1..Len(fmRows) : i # j => f[i] # f[j]
             /\ \A i \in 1..Len(fmRows) :
                  /\ \A t \in LinesOfKind("bracket_title") : f[i] > t
                  /\ fmText[f[i]].name = Escape(fmRows[i].competitor_name)
                  /\ fmText[f[i]].opponent = Escape(fmRows[i].opponent)
        /\ Cardinality(LinesOfKind("bracket")) = Len(fmRows)
        /\ \A i \in 1..Len(fmRows) :
             LET name == fmRows[i].competitor_name
                 mine == RowsNamed(fmRows, name)
                 heads == {k \in LinesOfKind("entry") : fmText[k].name = Escape(name)}
             IN /\ Cardinality(heads) = 1
                /\ \A k \in heads :
                     /\ \A t \in LinesOfKind("bracket_title") : k < t
                     /\ Cardinality(RowsAfter(k)) = Len(mine)
                     /\ \A m \in 1..Len(mine) :
                          /\ fmText[k + m].opponent = Escape(mine[m].opponent)
                          /\ fmText[k + m].division = Escape(OrElse(mine[m].division, "TBD"))
        /\ Cardinality(LinesOfKind("entry")) =
             Cardinality({fmRows[i].competitor_name : i \in 1..Len(fmRows)})

ListingWitness ==
    /\ FormatDone
    /\ Len(fmRows) = 3
    /\ fmRows[1].competitor_name = "Bo & Cy" /\ fmRows[1].opponent = "Jane <J>"
    /\ fmRows[2].competitor_name = "Ann Lee"
    /\ fmRows[3].competitor_name = "Bo & Cy" /\ fmRows[3].division # fmRows[1].division
    /\ Cardinality(LinesOfKind("entry")) = 2

---------------------------------------------------------------------------
(* The fetch loop of fetch_competitors_for_event, one GET at a time.  A     *)
(* sub-page URL is the base URL followed by one word, the sub-page's path.  *)

BaseSuffixes ==
    {"", "/participants", "/participants?page=1", "/participants?page=2",
     "/participants?page=3", "/participants?page=4", "/schedule/brackets", "/schedule",
     "/bracket", "/brackets", "/matches", "/registrations"}

AltSuffixes == {"", "/participants", "/schedule/brackets", "/schedule", "/bracket", "/matches"}

\* the order of Python strings on the paths
SuffixOrder ==
    <<"", "/bracket", "/brackets", "/matches", "/participants", "/participants?page=1",
      "/participants?page=2", "/participants?page=3", "/participants?page=4",
      "/registrations", "/schedule", "/schedule/brackets">>

\* f"{base}{suffix}"
SubPage(base, suffix) == IF suffix = "" THEN base ELSE Append(base, suffix)

\* "/en/event/" in base
HasEnEvent(b) ==
    \E i \in 1..Len(b) : i + 4 <= Len(b) /\ SubSeq(b, i, i + 4) = <<"/", "en", "/", "event", "/">>

\* "/event/" in base
HasEvent(b) ==
    \E i \in 1..Len(b) : i + 2 <= Len(b) /\ SubSeq(b, i, i + 2) = <<"/", "event", "/">>

\* base.replace("/en/event/", "/event/")
RECURSIVE DropEn(_)
DropEn(b) ==
    IF b = <<>> THEN <<>>
    ELSE IF Len(b) >= 5 /\ SubSeq(b, 1, 5) = <<"/", "en", "/", "event", "/">>
         THEN <<"/", "event", "/">> \o DropEn(SubSeq(b, 6, Len(b)))
    ELSE <<Head(b)>> \o DropEn(Tail(b))

\* base.replace("/event/", "/en/event/")
RECURSIVE AddEn(_)
AddEn(b) ==
    IF b = <<>> THEN <<>>
    ELSE IF Len(b) >= 3 /\ SubSeq(b, 1, 3) = <<"/", "event", "/">>
         THEN <<"/", "en", "/", "event", "/">> \o AddEn(SubSeq(b, 4, Len(b)))
    ELSE <<Head(b)>> \o AddEn(Tail(b))

\* the set variants
PageVariants(base) ==
    {SubPage(base, x) : x \in BaseSuffixes}
    \cup (IF HasEnEvent(base) THEN {SubPage(DropEn(base), x) : x \in AltSuffixes}
          ELSE IF HasEvent(base) THEN {SubPage(AddEn(base), x) : x \in AltSuffixes}
          ELSE {})

\* the members of variants that begin with stem, in the order of their paths
RECURSIVE StemPages(_, _, _)
StemPages(stem, order, variants) ==
    IF order = <<>> THEN <<>>
    ELSE (IF SubPage(stem, Head(order)) \in variants THEN <<SubPage(stem, Head(order))>> ELSE <<>>)
         \o StemPages(stem, Tail(order), variants)

\* sorted(variants): "/en/event/" sorts before "/event/"
SortedVariants(base) ==
    LET variants == PageVariants(base)
    IN IF HasEnEvent(base)
       THEN StemPages(base, SuffixOrder, variants) \o StemPages(DropEn(base), SuffixOrder, variants)
       ELSE IF HasEvent(base)
       THEN StemPages(AddEn(base), SuffixOrder, variants) \o StemPages(base, SuffixOrder, variants)
       ELSE StemPages(base, SuffixOrder, variants)

\* _event_pages_to_try
EventPagesToTry(event_url) ==
    LET base == RStripSlash(CanonicalEventUrl(event_url))
        first == <<SubPage(base, "/schedule/brackets"), SubPage(base, "/participants")>>
    IN first \o SelectSeq(SortedVariants(base), LAMBDA u : u # first[1] /\ u # first[2])

\* mutant: the next GET starts while the previous one is still awaited
MayStartGetEarly(position) == position \in {"rq_loop", "rq_wait"}

\* the body of "for url in pages_to_try" begins once the previous await is over
MayStartGet(position) == position = "rq_loop"

\* fetch_competitors_for_event(event, ...): pages_to_try is built
CallFetchLoop ==
    /\ UNCHANGED reqOthers
    /\ pc = "idle"
    /\ op' = "pages"
    /\ pc' = "rq_loop"
    /\ \E sh \in UrlShapes : rqPages' = EventPagesToTry(RenderUrl(sh))
    /\ UNCHANGED <<rqIssued, rqOutstanding, rqKept, outcome, scFrame>>

\* resp = await client.get(url): the request leaves
StartGet ==
    /\ UNCHANGED reqOthers
    /\ op = "pages" /\ MayStartGet(pc)
    /\ Len(rqIssued) < Len(rqPages)
    /\ rqIssued' = Append(rqIssued, rqPages[Len(rqIssued) + 1])
    /\ rqOutstanding' = rqOutstanding \cup {rqPages[Len(rqIssued) + 1]}
    /\ pc' = "rq_wait"
    /\ UNCHANGED <<op, rqPages, rqKept, outcome, scFrame>>

\* the awaited GET answers or raises httpx.HTTPError; status 200 is kept
FinishGet ==
    /\ UNCHANGED reqOthers
    /\ op = "pages" /\ pc = "rq_wait"
    /\ \E url \in rqOutstanding, answer \in Answers :
         /\ rqOutstanding' = rqOutstanding \ {url}
         /\ rqKept' = IF answer = "200" THEN rqKept + 1 ELSE rqKept
    /\ pc' = IF rqOutstanding' = {} THEN "rq_loop" ELSE "rq_wait"
    /\ UNCHANGED <<op, rqPages, rqIssued, outcome, scFrame>>

\* the loop is over: the client is closed and the pages are parsed
FetchLoopEnds ==
    /\ UNCHANGED reqOthers
    /\ op = "pages" /\ pc = "rq_loop"
    /\ Len(rqIssued) = Len(rqPages)
    /\ pc' = "done"
    /\ UNCHANGED <<op, reqVars, outcome, scFrame>>

NextFetchLoop ==
    \/ CallFetchLoop
    \/ StartGet
    \/ FinishGet
    \/ FetchLoopEnds

SpecFetchLoop == Init /\ [][NextFetchLoop]_vars

---------------------------------------------------------------------------
(* Properties of the fetch loop                                            *)

\* C22: within one extractor call the GETs are issued one after the other: at
\* most one request is outstanding at any time, none is started while one is
\* outstanding, the requests follow pages_to_try in order, and no sub-page URL
\* is requested twice.
SequentialGets ==
    op = "pages" =>
        /\ Cardinality(rqOutstanding) <= 1
        /\ rqOutstanding # {} <=> pc = "rq_wait"
        /\ rqOutstanding # {} => rqOutstanding = {rqIssued[Len(rqIssued)]}
        /\ Len(rqIssued) <= Len(rqPages)
        /\ rqIssued = SubSeq(rqPages, 1, Len(rqIssued))
        /\ \A i, j \in 1..Len(rqIssued) : i # j => rqIssued[i] # rqIssued[j]
        /\ \A i, j \in 1..Len(rqPages) : i # j => rqPages[i] # rqPages[j]
        /\ pc = "done" => Len(rqIssued) = Len(rqPages)

SequentialWitness ==
    /\ op = "pages" /\ pc = "done"
    /\ Len(rqIssued) = 18
    /\ rqIssued[1] = <<Host, "/", "en", "/", "event", "/", "1", "/schedule/brackets">>
    /\ rqIssued[18] = <<Host, "/", "event", "/", "1", "/schedule/brackets">>
    /\ rqKept \in 1..17

---------------------------------------------------------------------------
(* Two fetch_competitors_for_event calls in progress at once.  Each call    *)
(* owns the locals competitors and seen of its own frame; the steps of the  *)
(* two calls interleave candidate by candidate.                             *)

Calls == {1, 2}

\* what the pages of a call can show: table rows with or without an academy
ConcObservations == {o \in Observations("rows") : o.division = ""}

ConcInputs == UNION {[1..n -> ConcObservations] : n \in 0..MaxLog}

NoLocals == [competitors |-> <<>>, seen |-> {}, log |-> <<>>, origin |-> <<>>]

\* mutant: one seen set serves every call
SeenShared(states, c) == UNION {states[d].seen : d \in Calls}

\* seen: set[...] = set(), a local of the call
SeenBy(states, c) == states[c].seen

\* the candidate the call's pass builds from its next observation
ConcCandidate(c, i) ==
    LET cand == RowCandidates(ccInput[c][i], "/schedule/brackets")[1]
    IN [page |-> 1, kind |-> 1, key |-> cand.key, rec |-> cand.rec]

\* a call starts: its pages are fetched, its locals are created empty
CallConcurrent ==
    /\ UNCHANGED concOthers
    /\ pc = "idle" \/ op = "concurrent"
    /\ op' = "concurrent"
    /\ pc' = "running"
    /\ \E c \in Calls, input \in ConcInputs :
         /\ ccPc[c] = "idle"
         /\ ccPc' = [ccPc EXCEPT ![c] = "parse"]
         /\ ccInput' = [ccInput EXCEPT ![c] = input]
         /\ ccState' = [ccState EXCEPT ![c] = NoLocals]
    /\ UNCHANGED <<ccResult, outcome, scFrame>>

\* one call passes one candidate through its seen-key test
ConcurrentEmit ==
    /\ UNCHANGED concOthers
    /\ op = "concurrent"
    /\ \E c \in Calls :
         /\ ccPc[c] = "parse"
         /\ Len(ccState[c].log) < Len(ccInput[c])
         /\ ccState' = [ccState EXCEPT ![c] =
                          Emit([ccState[c] EXCEPT !.seen = SeenBy(ccState, c)],
                               ConcCandidate(c, Len(ccState[c].log) + 1))]
    /\ UNCHANGED <<op, pc, ccPc, ccInput, ccResult, outcome, scFrame>>

\* return competitors
ConcurrentReturn ==
    /\ UNCHANGED concOthers
    /\ op = "concurrent"
    /\ \E c \in Calls :
         /\ ccPc[c] = "parse"
         /\ Len(ccState[c].log) = Len(ccInput[c])
         /\ ccResult' = [ccResult EXCEPT ![c] = ccState[c].competitors]
         /\ ccPc' = [ccPc EXCEPT ![c] = "done"]
         /\ pc' = IF \A d \in Calls \ {c} : ccPc[d] = "done" THEN "done" ELSE pc
    /\ UNCHANGED <<op, ccInput, ccState, outcome, scFrame>>

NextConcurrent ==
    \/ CallConcurrent
    \/ ConcurrentEmit
    \/ ConcurrentReturn

SpecConcurrent == Init /\ [][NextConcurrent]_vars

---------------------------------------------------------------------------
(* Properties of concurrent extraction                                     *)

\* the list a call returns when it runs alone on the observations obs: the
\* record of every observation whose key no earlier observation has
RECURSIVE AloneFrom(_, _, _)
AloneFrom(obs, keys, out) ==
    IF obs = <<>> THEN out
    ELSE LET cand == RowCandidates(Head(obs), "/schedule/brackets")[1]
         IN IF cand.key \in keys THEN AloneFrom(Tail(obs), keys, out)
            ELSE AloneFrom(Tail(obs), keys \cup {cand.key}, Append(out, cand.rec))

\* C23: seen and competitors belong to one call: under every interleaving of
\* two concurrent calls, each call returns the list it returns when run alone
\* on the same page contents, each call's seen set holds keys of its own pages
\* only, and so a key recorded by one call suppresses nothing in the other.
CallsIsolated ==
    \A c \in Calls :
        /\ ccPc[c] = "done" => ccResult[c] = AloneFrom(ccInput[c], {}, <<>>)
        /\ ccPc[c] # "idle" =>
             /\ ccState[c].competitors =
                  AloneFrom(SubSeq(ccInput[c], 1, Len(ccState[c].log)), {}, <<>>)
             /\ ccState[c].seen =
                  {ccState[c].log[i].key : i \in 1..Len(ccState[c].log)}

\* both calls saw the same competitor under the same key, and each returned
\* its own record of it
IsolationWitness ==
    /\ \A c \in Calls : ccPc[c] = "done"
    /\ ccInput[1] = <<[name |-> "Ann Lee", other |-> "", division |-> "", time |-> "",
                       mat |-> "", academy |-> "Alpha"]>>
    /\ ccInput[2] = <<[name |-> "Ann Lee", other |-> "", division |-> "", time |-> "",
                       mat |-> "", academy |-> ""]>>
    /\ Len(ccResult[1]) = 1 /\ ccResult[1][1].academy = "Alpha"
    /\ Len(ccResult[2]) = 1 /\ ccResult[2][1].academy = "Unknown"

---------------------------------------------------------------------------
(* fetch_events: the order inside the returned list, with the names as      *)
(* strings.  The candidates are the entries of the dictionary in insertion  *)
(* order; the URL of a candidate is its position.                           *)

BkNames == { <<"a", " ", "b">>, <<"A", " ", "b">>, <<"B", "-">> }

BkCandidates == [name : BkNames, inCountry : BOOLEAN, dates : DateSets]

BkLists == UNION {[1..n -> BkCandidates] : n \in 0..MaxEvents}

\* Event(name=name, url=url, country=..., start_date=parsed_dates[0] or None)
NamedEvent(url, c) ==
    [url |-> url, name |-> c.name, inCountry |-> c.inCountry, start |-> StartOf(c.dates)]

\* mutant: the name is compared as written
GroupKeyLessCased(a, b) ==
    \/ SortKeyDate(a) < SortKeyDate(b)
    \/ SortKeyDate(a) = SortKeyDate(b) /\ StrLess(a.name, b.name)

\* _sort_key: (e.start_date or datetime.max, e.name.lower())
GroupKeyLess(a, b) ==
    \/ SortKeyDate(a) < SortKeyDate(b)
    \/ SortKeyDate(a) = SortKeyDate(b) /\ StrLess(LowerStr(a.name), LowerStr(b.name))

RECURSIVE InsertGroup(_, _)
InsertGroup(e, s) ==
    IF s = <<>> THEN <<e>>
    ELSE IF ~GroupKeyLess(Head(s), e) THEN <<e>> \o s
    ELSE <<Head(s)>> \o InsertGroup(e, Tail(s))

\* group.sort(key=_sort_key): stable
RECURSIVE SortGroup(_)
SortGroup(s) == IF s = <<>> THEN <<>> ELSE InsertGroup(Head(s), SortGroup(Tail(s)))

\* the loop over candidates.items(), from position i on
RECURSIVE ClassifyNamed(_, _, _, _, _)
ClassifyNamed(cands, i, y, t, acc) ==
    IF i > Len(cands) THEN acc
    ELSE IF IsPast(cands[i].dates, t) THEN ClassifyNamed(cands, i + 1, y, t, acc)
    ELSE ClassifyNamed(cands, i + 1, y, t,
                       [acc EXCEPT ![BucketOf(cands[i].inCountry, cands[i].dates, y)] =
                                       Append(@, NamedEvent(i, cands[i]))])

\* the six lists after the loop, each sorted
NamedGroups(cands, y, t) ==
    LET raw == ClassifyNamed(cands, 1, y, t, NoGroups)
    IN [k \in 1..6 |-> SortGroup(raw[k])]

\* fetch_events on a listing page that answered: the lists are built and
\* sorted, and one of the return statements runs or the mirror is asked
CallBuckets ==
    /\ UNCHANGED bktOthers
    /\ pc = "idle"
    /\ op' = "buckets"
    /\ pc' = "done"
    /\ \E cands \in BkLists :
         LET picked == PickPrimary(NamedGroups(cands, year, today))
         IN /\ bkCands' = cands
            /\ bkFound' = picked.found
            /\ bkResult' = picked.events
    /\ UNCHANGED <<outcome, scFrame>>

NextBuckets == CallBuckets

SpecBuckets == Init /\ [][NextBuckets]_vars

---------------------------------------------------------------------------
(* Properties of the order of the primary source's list                    *)

\* the bucket of a returned event, stated on its country tag and start date
StatedBucket(e) ==
    LET known == e.start # <<>>
        inYear == known /\ YearOf(e.start[1]) = year
    IN CASE e.inCountry /\ inYear -> 1
         [] e.inCountry /\ ~known -> 2
         [] e.inCountry /\ known /\ ~inYear -> 3
         [] ~e.inCountry /\ inYear -> 4
         [] ~e.inCountry /\ ~known -> 5
         [] OTHER -> 6

\* C24: in the list returned from the primary source the buckets follow one
\* another in priority order (every bucket-1 event before every bucket-2
\* event, every bucket-4 event before every bucket-5 event), and inside a
\* bucket the events are in ascending start date, a missing date counting as
\* the largest, events with equal dates in the order of their lower-cased
\* names, and events equal on both in the order the listing gave them.
BucketsSorted ==
    (op = "buckets" /\ pc = "done" /\ bkFound) =>
        \A i, j \in 1..Len(bkResult) :
            i < j =>
                LET a == bkResult[i]
                    b == bkResult[j]
                IN \/ StatedBucket(a) < StatedBucket(b)
                   \/ /\ StatedBucket(a) = StatedBucket(b)
                      /\ \/ StartKey(a) < StartKey(b)
                         \/ /\ StartKey(a) = StartKey(b)
                            /\ LexBefore(LowerStr(a.name), LowerStr(b.name))
                            /\ LowerStr(a.name) = LowerStr(b.name) => a.url < b.url

\* two events of bucket 1 on the same day: "a b" is returned before "B-"
\* although the listing gave "B-" first
BucketsWitness ==
    /\ op = "buckets" /\ pc = "done" /\ bkFound
    /\ Len(bkResult) = 2
    /\ StatedBucket(bkResult[1]) = 1 /\ StatedBucket(bkResult[2]) = 1
    /\ bkResult[1].start = bkResult[2].start
    /\ bkResult[1].name = <<"a", " ", "b">> /\ bkResult[1].url = 2
    /\ bkResult[2].name = <<"B", "-">>

---------------------------------------------------------------------------
(* handle_text_input.  A message is a sequence of pieces written one after  *)
(* the other: a space, the word "open", the phrase "event id:", a run of 3, *)
(* 4 or 10 digits, or an event URL.                                         *)

MaxPieces == 3

EventUrlPiece == "https://smoothcomp.com/en/event/1"
Pieces == {" ", "open", "event id:", "123", "1234", "1234567890", EventUrlPiece}
Messages == UNION {[1..n -> Pieces] : n \in 0..MaxPieces}

\* the number of digits of a piece, 0 for a piece that is no digit run
DigitCount(x) ==
    CASE x = "123" -> 3
      [] x = "1234" -> 4
      [] x = "1234567890" -> 10
      [] OTHER -> 0

\* the end of the run of digit pieces that starts at i (i - 1 if none)
RECURSIVE PieceRunEnd(_, _)
PieceRunEnd(t, i) ==
    IF i <= Len(t) /\ DigitCount(t[i]) > 0 THEN PieceRunEnd(t, i + 1) ELSE i - 1

RECURSIVE DigitsIn(_, _, _)
DigitsIn(t, i, j) == IF i > j THEN 0 ELSE DigitCount(t[i]) + DigitsIn(t, i + 1, j)

\* the first position at or after i that holds no space
RECURSIVE SkipSpaces(_, _)
SkipSpaces(t, i) == IF i <= Len(t) /\ t[i] = " " THEN SkipSpaces(t, i + 1) ELSE i

\* \b at the left of position i, where a word character begins
BoundaryBefore(t, i) == i = 1 \/ t[i - 1] = " "

\* \b at the right of position j, where a digit ends
BoundaryAfter(t, j) == j = Len(t) \/ t[j + 1] = " "

\* EVENT_URL_RE.search(text)
ExtractEventUrl(t) ==
    IF \E i \in 1..Len(t) : t[i] = EventUrlPiece THEN <<EventUrlPiece>> ELSE <<>>

\* EVENT_ID_RE matches at i: the phrase, optional spaces, 4 to 9 digits, \b
PhraseMatchAt(t, i) ==
    /\ t[i] = "event id:"
    /\ BoundaryBefore(t, i)
    /\ LET d == SkipSpaces(t, i + 1)
           e == PieceRunEnd(t, d)
       IN /\ e >= d
          /\ DigitsIn(t, d, e) \in 4..9
          /\ BoundaryAfter(t, e)

\* m.group(1) of the leftmost match
PhraseDigits(t) ==
    LET starts == {i \in 1..Len(t) : PhraseMatchAt(t, i)}
        i == CHOOSE k \in starts : \A j \in starts : k <= j
        d == SkipSpaces(t, i + 1)
    IN SubSeq(t, d, PieceRunEnd(t, d))

\* mutant: any run of 4 to 9 digits standing between spaces is taken for an id
ContainsBareId(trimmed) ==
    \E i \in 1..Len(trimmed) :
        /\ DigitCount(trimmed[i]) > 0
        /\ BoundaryBefore(trimmed, i)
        /\ DigitsIn(trimmed, i, PieceRunEnd(trimmed, i)) \in 4..9
        /\ BoundaryAfter(trimmed, PieceRunEnd(trimmed, i))

\* trimmed.isdigit() and 4 <= len(trimmed) <= 9
IsBareId(trimmed) ==
    /\ trimmed # <<>>
    /\ \A i \in 1..Len(trimmed) : DigitCount(trimmed[i]) > 0
    /\ DigitsIn(trimmed, 1, Len(trimmed)) \in 4..9

\* _extract_event_id: <<>> for None
ExtractEventId(t) ==
    IF \E i \in 1..Len(t) : PhraseMatchAt(t, i) THEN PhraseDigits(t)
    ELSE IF IsBareId(Strip(t)) THEN Strip(t)
    ELSE <<>>

\* the call handle_text_input makes for the stripped text
RouteOf(text) ==
    IF ExtractEventUrl(text) # <<>>
    THEN [call |-> "fetch_event_by_url", arg |-> ExtractEventUrl(text)]
    ELSE IF ExtractEventId(text) # <<>>
    THEN [call |-> "fetch_event_by_id", arg |-> ExtractEventId(text)]
    ELSE [call |-> "search_events_by_name", arg |-> text]

\* a text message arrives: an empty text returns at once, any other is
\* acknowledged and handed to one client call
ReceiveText ==
    /\ UNCHANGED routeOthers
    /\ pc = "idle"
    /\ op' = "text"
    /\ \E msg \in Messages :
         LET text == Strip(msg)
         IN /\ rtText' = msg
            /\ rtCalls' = IF text = <<>> THEN <<>> ELSE <<RouteOf(text)>>
            /\ rtReplies' = IF text = <<>> THEN <<>> ELSE <<"working">>
            /\ pc' = IF text = <<>> THEN "done" ELSE "rt_wait"
    /\ UNCHANGED <<outcome, scFrame>>

\* the client call returns: nothing found is reported, an event goes on to
\* _send_event_schedule, matches are offered as buttons
ClientAnswers ==
    /\ UNCHANGED routeOthers
    /\ op = "text" /\ pc = "rt_wait"
    /\ \E found \in BOOLEAN :
         rtReplies' = Append(rtReplies,
                             IF ~found THEN "not_found"
                             ELSE IF rtCalls[1].call = "search_events_by_name" THEN "buttons"
                             ELSE "schedule")
    /\ pc' = "done"
    /\ UNCHANGED <<op, rtText, rtCalls, outcome, scFrame>>

NextText == ReceiveText \/ ClientAnswers

SpecText == Init /\ [][NextText]_vars

---------------------------------------------------------------------------
(* Properties of handle_text_input                                         *)

TextRouted == op = "text" /\ pc \in {"rt_wait", "done"}

HasEventUrl == \E i \in 1..Len(rtText) : rtText[i] = EventUrlPiece

\* the explicit phrase: "event id:" at the start of a word, then 4 to 9
\* digits that end a word
HasIdPhrase ==
    \E i, d, e \in 1..Len(rtText) :
        /\ rtText[i] = "event id:" /\ (i = 1 \/ rtText[i - 1] = " ")
        /\ i < d /\ d <= e
        /\ \A k \in (i + 1)..(d - 1) : rtText[k] = " "
        /\ \A k \in d..e : DigitCount(rtText[k]) > 0
        /\ DigitsIn(rtText, d, e) \in 4..9
        /\ (e = Len(rtText) \/ rtText[e + 1] = " ")

\* a run of 4 to 9 digits between spaces or the ends of the message
HasBareToken ==
    \E d, e \in 1..Len(rtText) :
        /\ d <= e
        /\ \A k \in d..e : DigitCount(rtText[k]) > 0
        /\ DigitsIn(rtText, d, e) \in 4..9
        /\ (d = 1 \/ rtText[d - 1] = " ")
        /\ (e = Len(rtText) \/ rtText[e + 1] = " ")

\* the message, spaces at its ends aside, is nothing but 4 to 9 digits
IsBareToken ==
    \E d, e \in 1..Len(rtText) :
        /\ d <= e
        /\ \A k \in 1..Len(rtText) :
             IF k \in d..e THEN DigitCount(rtText[k]) > 0 ELSE rtText[k] = " "
        /\ DigitsIn(rtText, d, e) \in 4..9

CallsMade == {rtCalls[i].call : i \in 1..Len(rtCalls)}

\* C25 as stated: every non-empty text goes to exactly one handler: URL
\* resolution if it contains an event URL, otherwise id resolution if it
\* contains the explicit phrase or a bare token of 4 to 9 digits, otherwise
\* name search.
RoutingAsStated ==
    (TextRouted /\ Strip(rtText) # <<>>) =>
        /\ Len(rtCalls) = 1
        /\ rtCalls[1].call =
             IF HasEventUrl THEN "fetch_event_by_url"
             ELSE IF HasIdPhrase \/ HasBareToken THEN "fetch_event_by_id"
             ELSE "search_events_by_name"

\* C25: a text that is not empty once stripped goes to exactly one handler:
\* URL resolution if it contains an event URL; otherwise id resolution if it
\* contains the explicit phrase, or if the whole stripped text is 4 to 9
\* digits; otherwise name search.  A text recognised as URL or id never starts
\* a name search, whatever the resolution answers; a text of white space
\* alone starts nothing.
RoutingRule ==
    TextRouted =>
        /\ Strip(rtText) = <<>> => rtCalls = <<>> /\ rtReplies = <<>>
        /\ Strip(rtText) # <<>> =>
             /\ Len(rtCalls) = 1
             /\ rtCalls[1].call =
                  IF HasEventUrl THEN "fetch_event_by_url"
                  ELSE IF HasIdPhrase \/ IsBareToken THEN "fetch_event_by_id"
                  ELSE "search_events_by_name"
             /\ (HasEventUrl \/ HasIdPhrase \/ IsBareToken) =>
                  "search_events_by_name" \notin CallsMade

\* "open 1234": a name with a year goes to the name search
RoutingWitness ==
    /\ op = "text" /\ pc = "done"
    /\ rtText = <<"open", " ", "1234">>
    /\ rtCalls = <<[call |-> "search_events_by_name", arg |-> <<"open", " ", "1234">>]>>
    /\ rtReplies = <<"working", "buttons">>

---------------------------------------------------------------------------
(* _collect_event_candidates on the hrefs of a listing page, and the Events *)
(* fetch_events builds from its keys.  No link of these pages shows a date. *)

HrefTails == {"none", "slug", "slash", "query", "slug_query"}

HrefShapes ==
    [absolute : BOOLEAN, locale : BOOLEAN, digits : {<<"1">>, <<"2">>}, tail : HrefTails,
     inCountry : BOOLEAN]

\* the href attribute as written in the page
RenderHref(h) ==
    (IF h.absolute THEN <<Host>> ELSE <<>>)
    \o <<"/">> \o (IF h.locale THEN <<"en", "/">> ELSE <<>>) \o <<"event", "/">> \o h.digits
    \o (CASE h.tail = "slug" -> <<"/", "open">>
          [] h.tail = "slash" -> <<"/">>
          [] h.tail = "query" -> <<"?", "q">>
          [] h.tail = "slug_query" -> <<"/", "open", "?", "q">>
          [] OTHER -> <<>>)

ListingPages == UNION {[1..n -> HrefShapes] : n \in 0..MaxLinks}

\* urljoin("https://smoothcomp.com", path)
UrlJoin(path) == IF path # <<>> /\ Head(path) \in Hosts THEN path ELSE <<Host>> \o path

\* _normalize_event_url: every href of the model matches _EVENT_LINK_PATTERN
NormalizeEventUrl(href) == UrlJoin(SplitQuery(href))

\* match.group(0) of _EVENT_URL_PATTERN on the href as it stands in the html:
\* the path through the digits and, where one follows, the slug
UrlPatternMatch(h) ==
    <<"/">> \o (IF h.locale THEN <<"en", "/">> ELSE <<>>) \o <<"event", "/">> \o h.digits
    \o (IF h.tail \in {"slug", "slug_query"} THEN <<"/", "open">> ELSE <<>>)

\* candidates.setdefault(url, ...) on the keys; the country tag of a key is
\* found in the contexts gathered for it
AddKey(cands, url, inCountry) ==
    IF \E i \in 1..Len(cands) : cands[i].url = url
    THEN [i \in 1..Len(cands) |->
            IF cands[i].url = url
            THEN [cands[i] EXCEPT !.inCountry = @ \/ inCountry] ELSE cands[i]]
    ELSE Append(cands, [url |-> url, inCountry |-> inCountry])

\* the loop over soup.find_all("a", href=True)
RECURSIVE LinkPass(_, _)
LinkPass(page, cands) ==
    IF page = <<>> THEN cands
    ELSE LinkPass(Tail(page),
                  AddKey(cands, NormalizeEventUrl(RenderHref(Head(page))), Head(page).inCountry))

\* the loop over _EVENT_URL_PATTERN.finditer(html)
RECURSIVE HtmlPass(_, _)
HtmlPass(page, cands) ==
    IF page = <<>> THEN cands
    ELSE HtmlPass(Tail(page),
                  AddKey(cands, NormalizeEventUrl(UrlPatternMatch(Head(page))), Head(page).inCountry))

\* _collect_event_candidates
CollectEventCandidates(page) == HtmlPass(page, LinkPass(page, <<>>))

\* the listing page answered: the candidates are collected, one Event is
\* built for each key, and the first return statement that applies runs
CallCollect ==
    /\ UNCHANGED collectOthers
    /\ pc = "idle"
    /\ op' = "collect"
    /\ pc' = "done"
    /\ \E page \in ListingPages :
         LET cands == CollectEventCandidates(page)
             named == [i \in 1..Len(cands) |->
                         [name |-> <<"a", " ", "b">>, inCountry |-> cands[i].inCountry,
                          dates |-> {}]]
             picked == PickPrimary(NamedGroups(named, year, today))
         IN /\ clPage' = page
            /\ clKeys' = [i \in 1..Len(cands) |-> cands[i].url]
            /\ clResult' = [i \in 1..Len(picked.events) |-> cands[picked.events[i].url].url]
    /\ UNCHANGED <<outcome, scFrame>>

NextCollect == CallCollect

SpecCollect == Init /\ [][NextCollect]_vars

---------------------------------------------------------------------------
(* Properties of the candidates of the listing page                        *)

\* C26 as stated: fetch_events never returns two Events whose URLs have the
\* same canonical form (scheme, host and event path, the slug, the query
\* string and a trailing slash left aside).
NoSameEventTwice ==
    (op = "collect" /\ pc = "done") =>
        \A i, j \in 1..Len(clResult) :
            i # j => CanonicalEventUrl(clResult[i]) # CanonicalEventUrl(clResult[j])

---------------------------------------------------------------------------
(* _parse_schedule_brackets_page, the loop over <script>: the "A vs B"      *)
(* pairs of one script that names a bracket, a final or a semifinal.        *)

MaxPairs == 2

\* names the pair pattern can capture: two words each
PairNames == { <<"Ann", " ", "Lee">>, <<"ANN", " ", "LEE">>, <<"Novice", " ", "Gi">> }

PairLists == UNION {[1..n -> PairNames \X PairNames] : n \in 0..MaxPairs}

\* the script: affiliate_keywords is empty or the text matches one of them;
\* _extract_divisionish_text(text), "" when it finds nothing
Scripts == [passes : BOOLEAN, division : {"", "Adult"}]

\* key = (name, division, match_time, mat)
PairKey(name, script) == <<name, OrElse(script.division, "TBD"), "TBD", "TBD">>

\* seen when the script is reached: what the rows loop and earlier scripts left
EarlierSeen ==
    SUBSET {PairKey(n, sc) : n \in {<<"Ann", " ", "Lee">>, <<"ANN", " ", "LEE">>},
                             sc \in {[passes |-> TRUE, division |-> ""]}}

\* mutant: the pair is recorded from the left name only
PairDirectionsOneWay(left, right) == << <<left, right>> >>

\* for name, opponent in ((left_name, right_name), (right_name, left_name))
PairDirections(left, right) == << <<left, right>>, <<right, left>> >>

\* the body of that loop for the directions dirs of pair k
RECURSIVE EmitDirections(_, _, _, _)
EmitDirections(st, dirs, script, k) ==
    IF dirs = <<>> THEN st
    ELSE LET name == Head(dirs)[1]
             opponent == Head(dirs)[2]
             key == PairKey(name, script)
         IN IF \/ ~IsPlausiblePersonName(name)
               \/ ~script.passes
               \/ key \in st.seen
            THEN EmitDirections(st, Tail(dirs), script, k)
            ELSE EmitDirections(
                     [seen |-> st.seen \cup {key},
                      rows |-> Append(st.rows,
                                      [pair |-> k,
                                       rec |-> MakeRow(name, "Unknown", key[2], opponent,
                                                       key[3], key[4], "/schedule/brackets")])],
                     Tail(dirs), script, k)

\* the pass reaches a script whose text names a bracket
CallPairs ==
    /\ UNCHANGED pairsOthers
    /\ pc = "idle"
    /\ op' = "pairs"
    /\ pc' = "pp_loop"
    /\ ppPairs' \in PairLists
    /\ ppScript' \in {<<sc>> : sc \in Scripts}
    /\ ppSeen' \in EarlierSeen
    /\ UNCHANGED <<ppSeenAt, ppRows, outcome, scFrame>>

\* for left, right in pairs: the next pair
EmitPair ==
    /\ UNCHANGED pairsOthers
    /\ op = "pairs" /\ pc = "pp_loop"
    /\ Len(ppSeenAt) < Len(ppPairs)
    /\ LET k == Len(ppSeenAt) + 1
           st == EmitDirections([seen |-> ppSeen, rows |-> ppRows],
                                PairDirections(Strip(ppPairs[k][1]), Strip(ppPairs[k][2])),
                                ppScript[1], k)
       IN /\ ppSeenAt' = Append(ppSeenAt, ppSeen)
          /\ ppSeen' = st.seen
          /\ ppRows' = st.rows
    /\ UNCHANGED <<op, pc, ppPairs, ppScript, outcome, scFrame>>

\* the pairs of the script are exhausted
PairsEnd ==
    /\ UNCHANGED pairsOthers
    /\ op = "pairs" /\ pc = "pp_loop"
    /\ Len(ppSeenAt) = Len(ppPairs)
    /\ pc' = "done"
    /\ UNCHANGED <<op, pairsVars, outcome, scFrame>>

NextPairs ==
    \/ CallPairs
    \/ EmitPair
    \/ PairsEnd

SpecPairs == Init /\ [][NextPairs]_vars

---------------------------------------------------------------------------
(* Properties of the script pairs                                          *)

\* the person-name test on the names of the pairs: "Novice" is a blocked word
PlausiblePair(k) ==
    /\ \A i \in 1..Len(ppPairs[k][1]) : ppPairs[k][1][i] # "Novice"
    /\ \A i \in 1..Len(ppPairs[k][2]) : ppPairs[k][2][i] # "Novice"

RowsOfPair(k) == SelectSeq(ppRows, LAMBDA r : r.pair = k)

\* C27: for every pair A vs B of a script that passes the affiliate filter,
\* with two plausible names whose two keys were both unseen when the pair was
\* reached, exactly two records are emitted, A with opponent B and then B
\* with opponent A, both with the script's division, time and mat.
BothDirections ==
    op = "pairs" =>
        \A k \in 1..Len(ppSeenAt) :
            LET a == ppPairs[k][1]
                b == ppPairs[k][2]
                ka == PairKey(a, ppScript[1])
                kb == PairKey(b, ppScript[1])
                mine == RowsOfPair(k)
            IN (/\ ppScript[1].passes
                /\ PlausiblePair(k)
                /\ ka # kb
                /\ ka \notin ppSeenAt[k] /\ kb \notin ppSeenAt[k])
               => /\ Len(mine) = 2
                  /\ mine[1].rec.competitor_name = a /\ mine[1].rec.opponent = b
                  /\ mine[2].rec.competitor_name = b /\ mine[2].rec.opponent = a
                  /\ \A i \in 1..2 :
                       /\ mine[i].rec.division = OrElse(ppScript[1].division, "TBD")
                       /\ mine[i].rec.match_time = "TBD"
                       /\ mine[i].rec.mat = "TBD"

\* a second pair of the same script found both of its keys unseen and was
\* recorded in both directions
BothDirectionsWitness ==
    /\ op = "pairs" /\ pc = "done"
    /\ Len(ppPairs) = 2
    /\ ppSeenAt[2] # {}
    /\ ppPairs[2] = << <<"ANN", " ", "LEE">>, <<"Ann", " ", "Lee">> >>
    /\ Len(RowsOfPair(2)) = 2
    /\ RowsOfPair(2)[2].rec.opponent = <<"ANN", " ", "LEE">>

---------------------------------------------------------------------------
(* _parse_competitor_blocks: the scan of the nodes the selectors select.    *)
(* What one selector selects is given as runs of consecutive nodes with the *)
(* same text, so that a page of thousands of nodes stays a short value.     *)

MaxRuns == 3

\* the hard cap on scanned
ScanCap == 2200

Selectors ==
    <<"[class*='participant']", "[class*='competitor']", "[class*='athlete']",
      "[class*='fighter']", "[class*='entry']", "[class*='card']", "[class*='row']",
      "li", "article">>

\* the selectors that select something on the pages of the model
SelectorsHit == {1, 8, 9}

RunLengths == {1, 1100, 2200}

\* a node's text: under ten characters, or naming one person
NodeTexts == {"short"} \cup Names

Runs == [sel : SelectorsHit, n : RunLengths, text : NodeTexts]

\* for sel in selectors: for node in soup.select(sel): runs in selector order
BlockPages ==
    {p \in UNION {[1..k -> Runs] : k \in 0..MaxRuns} :
        \A i \in 1..(Len(p) - 1) : p[i].sel <= p[i + 1].sel}

BlockOf(text, src) ==
    BlockCandidates([name |-> text, other |-> "", division |-> "", time |-> "",
                     mat |-> "", academy |-> ""], src)[1]

BlockSeens == SUBSET {BlockOf("Ann Lee", "/participants").key}

\* mutant: no node fails the cap test
InspectableAll(scanned, n) == n

\* of n further nodes, those for which scanned += 1 leaves scanned <= 2200
Inspectable(scanned, n) ==
    IF scanned + n <= ScanCap THEN n
    ELSE IF scanned >= ScanCap THEN 0 ELSE ScanCap - scanned

CallBlocks ==
    /\ UNCHANGED blocksOthers
    /\ pc = "idle"
    /\ op' = "blocks"
    /\ pc' = "db_scan"
    /\ dbRuns' \in BlockPages
    /\ \E sn \in BlockSeens : dbSeen0' = sn /\ dbSeen' = sn
    /\ dbPos' = 0
    /\ dbScanned' = 0
    /\ dbInspected' = 0
    /\ dbRows' = <<>>
    /\ UNCHANGED <<dbResult, outcome, scFrame>>

\* the loop body over the nodes of the next run: the first node with a
\* name emits unless its key is seen, the later ones find the key seen;
\* the node that takes scanned over the cap returns rows
ScanRun ==
    /\ UNCHANGED blocksOthers
    /\ op = "blocks" /\ pc = "db_scan"
    /\ dbPos < Len(dbRuns)
    /\ LET run == dbRuns[dbPos + 1]
           can == Inspectable(dbScanned, run.n)
           c == BlockOf(run.text, "/participants")
           emits == can >= 1 /\ run.text \in Names /\ c.key \notin dbSeen
           rows == IF emits THEN Append(dbRows, c.rec) ELSE dbRows
       IN /\ dbInspected' = dbInspected + can
          /\ dbSeen' = IF emits THEN dbSeen \cup {c.key} ELSE dbSeen
          /\ dbRows' = rows
          /\ IF can < run.n
             THEN /\ dbScanned' = dbScanned + can + 1
                  /\ dbPos' = dbPos
                  /\ dbResult' = rows
                  /\ pc' = "done"
             ELSE /\ dbScanned' = dbScanned + can
                  /\ dbPos' = dbPos + 1
                  /\ UNCHANGED <<dbResult, pc>>
    /\ UNCHANGED <<op, dbRuns, dbSeen0, outcome, scFrame>>

\* the selectors are exhausted: return rows
ScanEnds ==
    /\ UNCHANGED blocksOthers
    /\ op = "blocks" /\ pc = "db_scan"
    /\ dbPos = Len(dbRuns)
    /\ dbResult' = dbRows
    /\ pc' = "done"
    /\ UNCHANGED <<op, dbRuns, dbPos, dbScanned, dbInspected, dbSeen0, dbSeen, dbRows,
                   outcome, scFrame>>

NextBlocks ==
    \/ CallBlocks
    \/ ScanRun
    \/ ScanEnds

SpecBlocks == Init /\ [][NextBlocks]_vars

---------------------------------------------------------------------------
(* Properties of the block scan                                            *)

RECURSIVE NodesBefore(_, _)
NodesBefore(runs, k) == IF k <= 1 THEN 0 ELSE runs[k - 1].n + NodesBefore(runs, k - 1)

NodesOnPage == NodesBefore(dbRuns, Len(dbRuns) + 1)

\* the runs with at least one node among the first ScanCap selected nodes
WithinCap == {k \in 1..Len(dbRuns) : NodesBefore(dbRuns, k) < ScanCap}

BlocksDone == op = "blocks" /\ pc = "done"

\* C28: the block scan reads at most 2200 nodes of a page, counted through
\* all the selectors with the skipped nodes included, and the call that
\* reaches the cap returns the records of the nodes read until then.
ScanCapped ==
    /\ op = "blocks" => dbInspected <= ScanCap
    /\ BlocksDone =>
         /\ dbInspected = IF NodesOnPage <= ScanCap THEN NodesOnPage ELSE ScanCap
         /\ \A k \in WithinCap :
              dbRuns[k].text \in Names =>
                 LET c == BlockOf(dbRuns[k].text, "/participants")
                 IN c.key \in dbSeen0 \/ \E i \in 1..Len(dbResult) : dbResult[i] = c.rec
         /\ \A i \in 1..Len(dbResult) :
              \E k \in WithinCap : dbResult[i].competitor_name = dbRuns[k].text

\* the cap was reached in the second selector, behind skipped nodes, a record
\* had been collected before and is returned, and the nodes behind the cap
\* gave none
ScanCappedWitness ==
    /\ BlocksDone
    /\ NodesOnPage > ScanCap
    /\ dbScanned = ScanCap + 1
    /\ Len(dbRuns) = 3
    /\ dbRuns[1].sel # dbRuns[2].sel
    /\ dbRuns[2].text = "short"
    /\ dbRuns[3].text = "Bo Cruz"
    /\ 3 \notin WithinCap
    /\ Len(dbResult) = 1
    /\ dbResult[1].competitor_name = "Ann Lee"

---------------------------------------------------------------------------
(* TournaBot: the event cache in bot_data and the three handlers that use  *)
(* it. The application handles one update at a time, so a handler runs     *)
(* from its first line to its return before the next update is taken.      *)

MaxUpdates == 3

Chats == {1, 2}

EventIds == {"10", "20"}

\* the Event the client builds for an id
EventOf(i) == [id |-> i, name |-> "Open"]

\* the texts the chats send: an event URL, a bare id, a name, blanks
BotTexts == { <<EventUrlPiece>>, <<"1234">>, <<"open">>, <<" ">> }

\* what fetch_events and search_events_by_name give: a list, or an exception
ClientListings == {[raises |-> r, ids |-> s] : r \in BOOLEAN, s \in SUBSET EventIds}

\* mutant: a listing is merged into the table
MergeCache(cache, ids) == [i \in (DOMAIN cache) \cup ids |-> EventOf(i)]

\* context.bot_data[EVENT_CACHE_KEY] = {event.id: event for event in events}
ReplaceCache(cache, ids) == [i \in ids |-> EventOf(i)]

\* context.bot_data.setdefault(EVENT_CACHE_KEY, {})[event.id] = event
AddToCache(cache, i) == [j \in (DOMAIN cache) \cup {i} |-> IF j = i THEN EventOf(i) ELSE cache[j]]

Handled(handler, chat, found, pressed, calls, reply) ==
    << [handler |-> handler, chat |-> chat, before |-> evCache, found |-> found,
        pressed |-> pressed, calls |-> calls, reply |-> reply] >>

\* events: /events, /upcoming, /schedule
EventsCommand ==
    /\ UNCHANGED cacheOthers
    /\ pc = "idle" \/ op = "cache"
    /\ evCount < MaxUpdates
    /\ op' = "cache"
    /\ pc' = "ev_idle"
    /\ evCount' = evCount + 1
    /\ \E chat \in Chats, badYear \in BOOLEAN, a \in ClientListings :
         IF badYear
         THEN /\ evLast' = Handled("events", chat, {}, "", <<>>, "invalid_year")
              /\ UNCHANGED <<evCache, evButtons, evListedBy>>
         ELSE IF a.raises
         THEN /\ evLast' = Handled("events", chat, {}, "", <<"fetch_events">>, "raised")
              /\ UNCHANGED <<evCache, evButtons, evListedBy>>
         ELSE /\ evLast' = Handled("events", chat, a.ids, "", <<"fetch_events">>, "listing")
              /\ evCache' = ReplaceCache(evCache, a.ids)
              /\ evButtons' = [evButtons EXCEPT ![chat] = @ \cup a.ids]
              /\ evListedBy' = chat
    /\ UNCHANGED <<outcome, scFrame>>

\* handle_text_input
TextInput ==
    /\ UNCHANGED cacheOthers
    /\ pc = "idle" \/ op = "cache"
    /\ evCount < MaxUpdates
    /\ op' = "cache"
    /\ pc' = "ev_idle"
    /\ evCount' = evCount + 1
    /\ \E chat \in Chats, msg \in BotTexts :
         LET text == Strip(msg)
             call == RouteOf(text).call
         IN IF text = <<>>
            THEN /\ evLast' = Handled("text", chat, {}, "", <<>>, "none")
                 /\ UNCHANGED <<evCache, evButtons, evListedBy>>
            ELSE IF call \in {"fetch_event_by_url", "fetch_event_by_id"}
            THEN \E ev \in SUBSET EventIds :
                   \/ /\ ev = {}
                      /\ evLast' = Handled("text", chat, {}, "", <<call>>, "could_not_load")
                      /\ UNCHANGED <<evCache, evButtons, evListedBy>>
                   \/ /\ \E i \in EventIds :
                           /\ ev = {i}
                           /\ evLast' = Handled("text", chat, {i}, "",
                                                <<call, "fetch_competitors_for_event">>,
                                                "schedule")
                           /\ evCache' = AddToCache(evCache, i)
                      /\ UNCHANGED <<evButtons, evListedBy>>
            ELSE \E a \in ClientListings :
                   IF a.raises
                   THEN /\ evLast' = Handled("text", chat, {}, "", <<call>>, "raised")
                        /\ UNCHANGED <<evCache, evButtons, evListedBy>>
                   ELSE IF a.ids = {}
                   THEN /\ evLast' = Handled("text", chat, {}, "", <<call>>, "no_match")
                        /\ UNCHANGED <<evCache, evButtons, evListedBy>>
                   ELSE /\ evLast' = Handled("text", chat, a.ids, "", <<call>>, "buttons")
                        /\ evCache' = ReplaceCache(evCache, a.ids)
                        /\ evButtons' = [evButtons EXCEPT ![chat] = @ \cup a.ids]
                        /\ evListedBy' = chat
    /\ UNCHANGED <<outcome, scFrame>>

\* on_event_selected: a chat presses one of the buttons it was sent
EventSelected ==
    /\ UNCHANGED cacheOthers
    /\ op = "cache"
    /\ evCount < MaxUpdates
    /\ pc' = "ev_idle"
    /\ evCount' = evCount + 1
    /\ \E chat \in Chats :
         \E i \in evButtons[chat] :
            IF i \in DOMAIN evCache
            THEN evLast' = Handled("press", chat, {}, i, <<"fetch_competitors_for_event">>,
                                   "schedule")
            ELSE evLast' = Handled("press", chat, {}, i, <<>>, "not_in_cache")
    /\ UNCHANGED <<op, evCache, evButtons, evListedBy, outcome, scFrame>>

NextCache ==
    \/ EventsCommand
    \/ TextInput
    \/ EventSelected

SpecCache == Init /\ [][NextCache]_vars

---------------------------------------------------------------------------
(* Properties of the event cache                                           *)

LastUpdate == evLast[1]

IsListing ==
    /\ op = "cache" /\ evLast # <<>>
    /\ \/ LastUpdate.handler = "events" /\ LastUpdate.calls = <<"fetch_events">>
       \/ LastUpdate.handler = "text" /\ LastUpdate.calls = <<"search_events_by_name">>
    /\ LastUpdate.reply # "raised"

IsLookup ==
    /\ op = "cache" /\ evLast # <<>>
    /\ LastUpdate.handler = "text"
    /\ Len(LastUpdate.calls) >= 1
    /\ LastUpdate.calls[1] \in {"fetch_event_by_url", "fetch_event_by_id"}

IsPress == op = "cache" /\ evLast # <<>> /\ LastUpdate.handler = "press"

LookupAdds ==
    IsLookup =>
        /\ LastUpdate.found = {} => evCache = LastUpdate.before
        /\ \A i \in LastUpdate.found :
             /\ DOMAIN evCache = (DOMAIN LastUpdate.before) \cup {i}
             /\ \A j \in DOMAIN LastUpdate.before : j # i => evCache[j] = LastUpdate.before[j]

PressRule ==
    IsPress =>
        /\ ("fetch_competitors_for_event" \in {LastUpdate.calls[k] : k \in 1..Len(LastUpdate.calls)})
              <=> (LastUpdate.pressed \in DOMAIN LastUpdate.before)
        /\ LastUpdate.pressed \notin DOMAIN LastUpdate.before =>
              /\ LastUpdate.reply = "not_in_cache"
              /\ LastUpdate.calls = <<>>
        /\ evCache = LastUpdate.before

\* C29 as stated: /events and a name search replace the table with their
\* result, URL and id lookups add one entry, and a press starts the
\* extraction exactly when its id is in the table, else answers that the
\* event is not in cache, fetches nothing and leaves the table alone.
CacheAsStated ==
    /\ IsListing => DOMAIN evCache = LastUpdate.found
    /\ LookupAdds
    /\ PressRule

\* C29: /events and a name search with at least one match replace the table
\* with their result, a name search without a match leaves it as it was, URL
\* and id lookups add one entry, and a press starts the extraction exactly
\* when its id is in the table at that time, else answers that the event is
\* not in cache, fetches nothing and leaves the table alone.
CacheRule ==
    /\ IsListing =>
         IF LastUpdate.handler = "text" /\ LastUpdate.found = {}
         THEN evCache = LastUpdate.before
         ELSE DOMAIN evCache = LastUpdate.found
    /\ LookupAdds
    /\ PressRule

\* chat 1 presses a button of its own listing after chat 2's listing replaced
\* the table, and is told the event is not in cache
CacheWitness ==
    /\ IsPress
    /\ LastUpdate.chat = 1
    /\ evListedBy = 2
    /\ LastUpdate.pressed \in evButtons[1] \ evButtons[2]
    /\ LastUpdate.reply = "not_in_cache"
    /\ LastUpdate.calls = <<>>
    /\ DOMAIN evCache # {}

---------------------------------------------------------------------------
(* The fields of the records fetch_competitors_for_event returns           *)

\* C30: every record fetch_competitors_for_event returns has a competitor
\* name, an academy, a division, a match time and a mat that are not the
\* empty string, and a source_url among the sub-pages that answered 200 in
\* that call.
RecordsComplete ==
    CompetitorsDone =>
        \A i \in 1..Len(result) :
            /\ result[i].competitor_name # ""
            /\ result[i].academy # ""
            /\ result[i].division # ""
            /\ result[i].match_time # ""
            /\ result[i].mat # ""
            /\ result[i].source_url \in Answered200

====
